---- MODULE Spec2Model ----
(***************************************************************************)
(* A model of the badge generator: the placeholder resolver and the run    *)
(* preserving splicer (main2.py), the image placeholder inserter, the      *)
(* batch generator (table_to_dicts, main) and the experimental routines of *)
(* tests/main.py and tests/test.py.                                        *)
(*                                                                         *)
(* Texts are sequences of one-character strings; "LF" is '\n', "CR" is     *)
(* '\r' and "SP" is a blank.  An optional attribute (python's None or a    *)
(* value) is the empty sequence or a one-element sequence.                 *)
(* A table is its rows of cells, a cell its paragraphs.  Cells merged      *)
(* across columns, which row.cells yields once per column, are modelled    *)
(* for replace_all_images_with_dummies (SpecMerged) only; tables nested in *)
(* cells are outside the model.                                            *)
(***************************************************************************)
EXTENDS Integers, Sequences, FiniteSets, TLC

VARIABLES
    \* ---- one call of a paragraph-level routine (main2.py:44-111, 147-168)
    paragraph,      \* the paragraph object the routine works on
    before,         \* the same paragraph as it was when the routine was called
    find_text,      \* the key / placeholder argument
    replace_text,   \* the replacement value argument
    ret,            \* the routine's return value, -1 while it has not returned
    \* ---- one pass over a document (main2.py:9-42, 113-145)
    doc,                \* the Document object: top-level paragraphs and tables
    doc0,               \* the document as it was opened
    prev_doc,           \* the document before the placeholder processed last
    replacements,       \* the text map, in the order of its items()
    image_replacements, \* the image map, in the order of its items()
    files,              \* the paths that exist on disk
    width_inches,       \* the image width asked for (hundredths of an inch)
    n_done,             \* how many entries of the current map are processed
    phase,              \* "idle", "text", "image" or "done"
    printed,            \* what was printed per entry: [key, kind, count]
    \* ---- table_to_dicts (main2.py:170-207)
    table,          \* the DataFrame's rows, each a function column -> cell
    columns,        \* table.columns, in order
    count_per_doc,  \* the group size
    image_column,   \* the name of the image column
    start,          \* the loop variable i of range(0, len(table), count_per_doc)
    result_groups,  \* the list of (text_dict, image_dict) built so far
    chunks,         \* per group built, the numbers of the rows of its chunk
    bpc,            \* "idle", "loop" or "done"
    \* ---- replace_text_placeholders (tests/main.py:6-113)
    split_doc,          \* the Document opened from output_path
    text_replacements,  \* the placeholder map, in the order of its items()
    split_at,           \* the loops' position: item, row, cell, paragraph
    split_visit,        \* the paragraph visited last and its cell before the visit
    split_ret,          \* the return value, "running" before the return
    split_doc0,         \* the document as it was opened
    split_out,          \* the content of the file at output_path
    split_raised,       \* whether an exception was raised inside the routine
    \* ---- replace_all_images_with_dummies (tests/main.py:115-227, tests/test.py:167-279)
    variant,        \* which copy of the routine runs: "main" or "test"
    dummy_doc,      \* the Document opened from output_path
    dummy_doc0,     \* the document as it was opened
    dummy_files,    \* the sorted list of the pool's .jpg files
    image_count,    \* the counter of the images replaced
    dummy_at,       \* how many paragraphs of the traversal are visited
    dummy_ret,      \* the return value, "running" before the return
    dummy_spans,    \* per cell, how often row.cells yields it (grid columns spanned)
    \* ---- main (main2.py:209-318)
    df,             \* the CSV file: None when it cannot be read, else the rows
    template,       \* the template file: None when missing, else its document
    profile,        \* the profile main selected
    image_files,    \* the image paths that exist on disk
    groups,         \* the list table_to_dicts returned
    group_i,        \* the loop variable i of enumerate(groups)
    mpc,            \* the statement main is at
    main_doc,       \* the Document object of the current group
    output,         \* per group, the content of its .docx on disk (None: absent)
    pdfs,           \* the groups whose .pdf exists
    log,            \* what main printed, in order: <<group, event>>
    raised,         \* the exceptions raised so far: <<group, statement>>
    written,        \* the names of the files main has written
    \* ---- replace_existing_image (tests/test.py:91-165)
    existing_doc,   \* the document at output_path
    existing_doc0,  \* the document at doc_path
    new_image_path, \* the argument new_image_path
    existing_files, \* the image paths that exist on disk
    existing_ret    \* "running", or the value returned

paraVars == <<paragraph, before, find_text, replace_text, ret>>

docVars == <<doc, doc0, prev_doc, replacements, image_replacements, files,
             width_inches, n_done, phase, printed>>

batchVars == <<table, columns, count_per_doc, image_column, start, result_groups,
               chunks, bpc>>

splitVars == <<split_doc, text_replacements, split_at, split_visit, split_ret,
               split_doc0, split_out, split_raised>>

dummyVars == <<variant, dummy_doc, dummy_doc0, dummy_files, image_count, dummy_at,
               dummy_ret, dummy_spans>>

mainVars == <<df, template, profile, image_files, groups, group_i, mpc, main_doc,
              output, pdfs, log, raised, written>>

existingVars == <<existing_doc, existing_doc0, new_image_path, existing_files,
                  existing_ret>>

vars == <<paraVars, docVars, batchVars, splitVars, dummyVars, mainVars, existingVars>>

(***************************************************************************)
(* Bounds of the model.                                                    *)
(***************************************************************************)
MaxRuns == 2
MaxParagraphs == 2
MaxKeys == 2
MaxRows == 4
MaxGroupSize == 3
\* the rows of the one long table: a group that reaches three-digit positions
LongRows == 101

\* the most paragraphs a cell of the first table starts with (tests/main.py)
MaxCellParagraphs == 2

\* the most paragraphs of a document whose images are replaced (tests/)
MaxDummyParagraphs == 2

\* the most rows of the CSV file main reads
MaxMainRows == 2

(***************************************************************************)
(* Python strings.                                                         *)
(***************************************************************************)
\* s[i:] (1-based i)
StrFrom(s, i) == SubSeq(s, i, Len(s))

\* s.startswith(k, i-1): k stands in s at (1-based) position i
StartsAt(s, k, i) ==
    /\ i + Len(k) - 1 <= Len(s)
    /\ SubSeq(s, i, i + Len(k) - 1) = k

\* k in s
StrIn(k, s) == \E i \in 1..(Len(s) + 1) : StartsAt(s, k, i)

\* s.replace(k, v): every non-overlapping occurrence, scanning from the left;
\* for the empty k, v is put before every character and at the end.
RECURSIVE ReplaceFrom(_, _, _, _)
ReplaceFrom(s, k, v, i) ==
    IF i > Len(s) THEN (IF Len(k) = 0 THEN v ELSE <<>>)
    ELSE IF Len(k) = 0 THEN v \o <<s[i]>> \o ReplaceFrom(s, k, v, i + 1)
    ELSE IF StartsAt(s, k, i) THEN v \o ReplaceFrom(s, k, v, i + Len(k))
    ELSE <<s[i]>> \o ReplaceFrom(s, k, v, i + 1)

StrReplace(s, k, v) == ReplaceFrom(s, k, v, 1)

\* the number of non-overlapping occurrences of k in s (s.count(k))
RECURSIVE CountFrom(_, _, _)
CountFrom(s, k, i) ==
    IF i > Len(s) THEN (IF Len(k) = 0 THEN 1 ELSE 0)
    ELSE IF Len(k) = 0 THEN 1 + CountFrom(s, k, i + 1)
    ELSE IF StartsAt(s, k, i) THEN 1 + CountFrom(s, k, i + Len(k))
    ELSE CountFrom(s, k, i + 1)

StrCount(s, k) == CountFrom(s, k, 1)

(***************************************************************************)
(* The document object model (python-docx) as the scripts use it.          *)
(***************************************************************************)
None == <<>>
Some(v) == <<v>>

\* A run's formatting descriptor.
NoFormat ==
    [bold |-> None, italic |-> None, underline |-> None,
     font_name |-> None, font_size |-> None, color |-> None]

\* What a run's text reads back after it was set to s: the setter stores
\* '\n' and '\r' alike as a line break, which reads as '\n'.
StoredText(s) == [i \in 1..Len(s) |-> IF s[i] = "CR" THEN "LF" ELSE s[i]]

\* run.text = s: the run's content (text, picture) is replaced, its
\* formatting kept.
SetRunText(run, s) == [run EXCEPT !.text = StoredText(s), !.image = None]

\* A run as paragraph.add_run(s) makes it: no formatting of its own.
NewRun(s) == [text |-> StoredText(s), fmt |-> NoFormat, image |-> None]

\* run.add_picture(path, width) on a run
AddPicture(run, path, width) ==
    [run EXCEPT !.image = Some([file |-> path, width |-> width])]

HasImage(run) == run.image # None

\* paragraph.text: the concatenation of the runs' texts
RECURSIVE ConcatTexts(_)
ConcatTexts(runs) ==
    IF runs = <<>> THEN <<>> ELSE Head(runs).text \o ConcatTexts(Tail(runs))

ParagraphText(p) == ConcatTexts(p.runs)

\* paragraph.clear(): every run removed, the paragraph's own style kept
ClearParagraph(p) == [p EXCEPT !.runs = <<>>]

\* paragraph.add_run(...): the run is appended after the last run
AppendRun(p, run) == [p EXCEPT !.runs = Append(@, run)]

(***************************************************************************)
(* replace_in_paragraph (main2.py:44-111)                                  *)
(***************************************************************************)
\* the first run (in order) whose own text contains the key; 0 when none
FirstRunWith(p, k) ==
    IF \E i \in 1..Len(p.runs) : StrIn(k, p.runs[i].text)
    THEN CHOOSE i \in 1..Len(p.runs) :
            /\ StrIn(k, p.runs[i].text)
            /\ \A j \in 1..(i - 1) : ~StrIn(k, p.runs[j].text)
    ELSE 0

\* (mutant) nothing is copied onto the new run
CopyNoFormat(run, first) == run

\* main2.py:93-104: the first run's attributes copied onto the new run,
\* each only when it is set
CopyFirstRunFormat(run, first) ==
    [run EXCEPT !.fmt =
        [bold      |-> IF first.bold # None THEN first.bold ELSE @.bold,
         italic    |-> IF first.italic # None THEN first.italic ELSE @.italic,
         underline |-> IF first.underline # None THEN first.underline ELSE @.underline,
         font_name |-> IF first.font_name # None /\ first.font_name # Some("")
                       THEN first.font_name ELSE @.font_name,
         font_size |-> IF first.font_size # None /\ first.font_size # Some(0)
                       THEN first.font_size ELSE @.font_size,
         color     |-> IF first.color # None THEN first.color ELSE @.color]]

\* main2.py:66-109: the key straddles runs: one run carrying the whole text
RebuildParagraph(p, k, v) ==
    LET new_text == StrReplace(ParagraphText(p), k, v)
        cleared  == ClearParagraph(p)
    IN  IF Len(p.runs) > 0
        THEN AppendRun(cleared, CopyFirstRunFormat(NewRun(new_text), p.runs[1].fmt))
        ELSE AppendRun(cleared, NewRun(new_text))

\* (mutant) the loop over the runs goes on after the first run that holds the key
replace_in_paragraph_every_run(p, k, v) ==
    IF ~StrIn(k, ParagraphText(p))
    THEN [paragraph |-> p, ret |-> 0]
    ELSE IF FirstRunWith(p, k) # 0
    THEN [paragraph |->
             [p EXCEPT !.runs =
                 [i \in 1..Len(p.runs) |->
                     IF StrIn(k, p.runs[i].text)
                     THEN SetRunText(p.runs[i], StrReplace(p.runs[i].text, k, v))
                     ELSE p.runs[i]]],
          ret |-> 1]
    ELSE [paragraph |-> RebuildParagraph(p, k, v), ret |-> 1]

replace_in_paragraph(p, k, v) ==
    IF ~StrIn(k, ParagraphText(p))
    THEN [paragraph |-> p, ret |-> 0]
    ELSE IF FirstRunWith(p, k) # 0
    THEN LET i == FirstRunWith(p, k)
         IN  [paragraph |->
                 [p EXCEPT !.runs[i] = SetRunText(@, StrReplace(@.text, k, v))],
              ret |-> 1]
    ELSE IF StrIn(k, ParagraphText(p))
    THEN [paragraph |-> RebuildParagraph(p, k, v), ret |-> 1]
    ELSE [paragraph |-> p, ret |-> 0]

(***************************************************************************)
(* replace_text_with_image_in_paragraph (main2.py:147-168)                 *)
(***************************************************************************)
\* (mutant) the paragraph is not cleared before the picture is added
replace_text_with_image_keeping_runs(p, placeholder, image_path, width) ==
    IF ~StrIn(placeholder, ParagraphText(p))
    THEN [paragraph |-> p, ret |-> 0]
    ELSE [paragraph |-> AppendRun(p, AddPicture(NewRun(<<>>), image_path, width)),
          ret |-> 1]

replace_text_with_image_in_paragraph(p, placeholder, image_path, width) ==
    IF ~StrIn(placeholder, ParagraphText(p))
    THEN [paragraph |-> p, ret |-> 0]
    ELSE [paragraph |->
             AppendRun(ClearParagraph(p), AddPicture(NewRun(<<>>), image_path, width)),
          ret |-> 1]

(***************************************************************************)
(* The document: doc.paragraphs (top level) and doc.tables, a table being  *)
(* its rows, a row its cells, a cell its paragraphs.                       *)
(***************************************************************************)
RECURSIVE Flatten(_)
Flatten(ss) == IF ss = <<>> THEN <<>> ELSE Head(ss) \o Flatten(Tail(ss))

\* for table in doc.tables: for row in table.rows: for cell in row.cells:
\* for paragraph in cell.paragraphs  (main2.py:32-35)
CellParagraphs(d) == Flatten(Flatten(Flatten(d.tables)))

\* the order in which both passes visit the paragraphs (main2.py:27-37, 130-140)
AllParagraphs(d) == d.paragraphs \o CellParagraphs(d)

\* the document of d's shape whose paragraphs, in the order of the
\* traversal, are ps
WithParagraphs(d, ps) ==
    LET top == Len(d.paragraphs)
        Before(t, r, c) ==
            Len(Flatten(Flatten(Flatten(SubSeq(d.tables, 1, t - 1)))))
              + Len(Flatten(Flatten(SubSeq(d.tables[t], 1, r - 1))))
              + Len(Flatten(SubSeq(d.tables[t][r], 1, c - 1)))
    IN  [paragraphs |-> SubSeq(ps, 1, top),
         tables |->
            [t \in 1..Len(d.tables) |->
              [r \in 1..Len(d.tables[t]) |->
                [c \in 1..Len(d.tables[t][r]) |->
                  [q \in 1..Len(d.tables[t][r][c]) |->
                      ps[top + Before(t, r, c) + q]]]]]]

RECURSIVE SumSeq(_)
SumSeq(ns) == IF ns = <<>> THEN 0 ELSE Head(ns) + SumSeq(Tail(ns))

(***************************************************************************)
(* replace_text_in_document (main2.py:9-42), one item of the map           *)
(***************************************************************************)
\* main2.py:22-24: a value holding '\n' has each '\n' turned into '\r'
LineBreaks(v) ==
    IF StrIn(<<"LF">>, v) THEN StrReplace(v, <<"LF">>, <<"CR">>) ELSE v

\* (mutant) the paragraph is rebuilt whether or not it holds the key
TextVisitUnguarded(p, k, v) ==
    [paragraph |-> RebuildParagraph(p, k, v), ret |-> 1]

\* main2.py:28-29 and 36-37: the visit of one paragraph
TextVisit(p, k, v) ==
    IF StrIn(k, ParagraphText(p))
    THEN replace_in_paragraph(p, k, v)
    ELSE [paragraph |-> p, ret |-> 0]

\* (mutant) every occurrence of the key is counted
TextCountOccurrences(d, k, v) ==
    SumSeq([i \in 1..Len(AllParagraphs(d)) |->
                StrCount(ParagraphText(AllParagraphs(d)[i]), k)])

\* main2.py:19, 29, 37: replaced_count after the item's two loops
TextCount(d, k, v) ==
    SumSeq([i \in 1..Len(AllParagraphs(d)) |->
                TextVisit(AllParagraphs(d)[i], k, LineBreaks(v)).ret])

\* (mutant) a value with a line break also adds a paragraph to the body
TextReplacedNewParagraph(d, k, v) ==
    LET r == WithParagraphs(d, [i \in 1..Len(AllParagraphs(d)) |->
                          TextVisit(AllParagraphs(d)[i], k, LineBreaks(v)).paragraph])
    IN  IF StrIn(<<"LF">>, v) /\ r # d
        THEN [r EXCEPT !.paragraphs = Append(@, [style |-> "Normal", runs |-> <<NewRun(v)>>])]
        ELSE r

\* main2.py:26-37: the document after the item's two loops
TextReplaced(d, k, v) ==
    WithParagraphs(d, [i \in 1..Len(AllParagraphs(d)) |->
                          TextVisit(AllParagraphs(d)[i], k, LineBreaks(v)).paragraph])

\* (mutant) the warning is never printed
TextPrintedNoWarning(k, n) == [key |-> k, kind |-> "replaced", count |-> n]

\* main2.py:39-42: what is printed for the item
TextPrinted(k, n) ==
    [key |-> k, kind |-> IF n > 0 THEN "replaced" ELSE "not_found", count |-> n]

(***************************************************************************)
(* replace_images_in_document (main2.py:113-145), one item of the map      *)
(***************************************************************************)
\* (mutant) the check of the file is left out
PathExistsAlways(fs, image_path) == TRUE

\* os.path.exists(image_path)  (main2.py:125)
PathExists(fs, image_path) == image_path \in fs

\* (mutant) the paragraph becomes the picture whether or not it holds the
\* placeholder
ImageVisitUnguarded(p, placeholder, image_path, width) ==
    [paragraph |-> AppendRun(ClearParagraph(p), AddPicture(NewRun(<<>>), image_path, width)),
     ret |-> 1]

\* main2.py:131-132 and 139-140: the visit of one paragraph
ImageVisit(p, placeholder, image_path, width) ==
    IF StrIn(placeholder, ParagraphText(p))
    THEN replace_text_with_image_in_paragraph(p, placeholder, image_path, width)
    ELSE [paragraph |-> p, ret |-> 0]

ImageCount(d, placeholder, image_path, width) ==
    SumSeq([i \in 1..Len(AllParagraphs(d)) |->
                ImageVisit(AllParagraphs(d)[i], placeholder, image_path, width).ret])

ImageReplaced(d, placeholder, image_path, width) ==
    WithParagraphs(d, [i \in 1..Len(AllParagraphs(d)) |->
        ImageVisit(AllParagraphs(d)[i], placeholder, image_path, width).paragraph])

(***************************************************************************)
(* table_to_dicts (main2.py:170-207)                                       *)
(***************************************************************************)
\* A cell is <<"int", n>> or <<"str", text>>; str(cell) is its text.
Digit(d) == <<"0", "1", "2", "3", "4", "5", "6", "7", "8", "9">>[d + 1]

RECURSIVE Decimal(_)
Decimal(n) == IF n < 10 THEN <<Digit(n)>> ELSE Decimal(n \div 10) \o <<Digit(n % 10)>>

Str(cell) == IF cell[1] = "int" THEN Decimal(cell[2]) ELSE cell[2]

\* the minimum width of the position in the default key_format "{}{:02d}"
KeyWidth == 2

RECURSIVE ZeroPad(_, _)
ZeroPad(digits, width) ==
    IF Len(digits) >= width THEN digits ELSE ZeroPad(<<"0">> \o digits, width)

\* key_format.format(column, idx)  (main2.py:197, 202)
KeyFormat(column, idx) == column \o ZeroPad(Decimal(idx), KeyWidth)

\* A dict is the sequence of its items <<key, value>> in insertion order.
DictHas(d, k) == \E n \in 1..Len(d) : d[n][1] = k

DictGet(d, k) == d[CHOOSE n \in 1..Len(d) : d[n][1] = k][2]

\* The dict after the assignments d[key] = value of writes, in their order:
\* a key stands where it was first assigned and holds what it was assigned last.
DictAfter(writes) ==
    LET IsFirst(n) == \A m \in 1..(n - 1) : writes[m][1] # writes[n][1]
        firsts == SelectSeq([n \in 1..Len(writes) |-> n], IsFirst)
        Last(k) == CHOOSE n \in 1..Len(writes) :
                      /\ writes[n][1] = k
                      /\ \A m \in (n + 1)..Len(writes) : writes[m][1] # k
    IN  [r \in 1..Len(firsts) |->
            <<writes[firsts[r]][1], writes[Last(writes[firsts[r]][1])][2]>>]

Min(a, b) == IF a <= b THEN a ELSE b

\* (mutant) the slice is one row short
ChunkRowsShort(n, lo, size) ==
    [k \in 1..(Min(lo + size, n) - lo - 1) |-> lo + k]

\* table.iloc[start:start + size]: the numbers (1-based) of the rows taken
ChunkRows(n, lo, size) ==
    [k \in 1..(Min(lo + size, n) - lo) |-> lo + k]

\* main2.py:193-198: the assignments to text_dict for one chunk: row after
\* row (idx from 1), and per row one for every column that is neither the
\* image column nor 'id'
TextWrites(chunk, cols, image_col) ==
    LET IsText(col) == col # image_col /\ col # <<"i", "d">>
        text_cols == SelectSeq(cols, IsText)
        per_row == Len(text_cols)
    IN  [n \in 1..(Len(chunk) * per_row) |->
            LET idx == ((n - 1) \div per_row) + 1
                col == text_cols[((n - 1) % per_row) + 1]
            IN  <<KeyFormat(col, idx), Str(chunk[idx][col])>>]

\* main2.py:200-203: the assignments to image_dict for one chunk: one per row
\* when the image column is a column of the table
ImageWrites(chunk, cols, image_col) ==
    IF \E c \in 1..Len(cols) : cols[c] = image_col
    THEN [idx \in 1..Len(chunk) |->
            <<KeyFormat(image_col, idx), Str(chunk[idx][image_col])>>]
    ELSE <<>>

\* main2.py:189-205: the (text_dict, image_dict) of one chunk
GroupDicts(chunk, cols, image_col) ==
    [text_dict  |-> DictAfter(TextWrites(chunk, cols, image_col)),
     image_dict |-> DictAfter(ImageWrites(chunk, cols, image_col))]

(***************************************************************************)
(* Inputs.                                                                 *)
(***************************************************************************)
FormatA ==
    [bold |-> Some(TRUE), italic |-> Some(FALSE), underline |-> None,
     font_name |-> Some("Arial"), font_size |-> Some(12), color |-> Some("FF0000")]

FormatB ==
    [bold |-> None, italic |-> Some(TRUE), underline |-> Some(TRUE),
     font_name |-> None, font_size |-> Some(8), color |-> None]

SeqsUpTo(S, n) == UNION {[1..m -> S] : m \in 0..n}

TextRun(s, f) == [text |-> s, fmt |-> f, image |-> None]

Para(runs) == [style |-> "Normal", runs |-> runs]

NoParagraph == Para(<<>>)

NoDocument == [paragraphs |-> <<>>, tables |-> <<>>]

\* ---- a call of replace_in_paragraph
ParaRunTexts ==
    {<<>>, <<"a">>, <<"b">>, <<"a", "b">>, <<"a", "b", "a", "b">>}

ParaRuns ==
    [text : ParaRunTexts, fmt : {FormatA, FormatB}, image : {None}]

ParaKeys == {<<"a", "b">>, <<"b">>, <<>>}

ParaValues == {<<>>, <<"x">>, <<"b">>, <<"x", "LF", "a", "b">>}

\* ---- a pass over a document: the placeholders "n1", "n2" (text) and
\* "i1", "i2" (image), whole in one run, split over runs, repeated, between
\* other text, or absent
DocParagraphs ==
    { Para(<<TextRun(<<"n", "1">>, FormatA)>>),
      Para(<<TextRun(<<"n">>, FormatA), TextRun(<<"1">>, FormatB)>>),
      Para(<<TextRun(<<"n", "1", "n", "1">>, FormatA), TextRun(<<"n", "1">>, FormatB)>>),
      Para(<<TextRun(<<"n", "2">>, FormatB)>>),
      Para(<<TextRun(<<"x">>, FormatB)>>),
      Para(<<TextRun(<<"i", "1">>, FormatA)>>),
      Para(<<TextRun(<<"x">>, FormatA), TextRun(<<"i">>, FormatB),
             TextRun(<<"1", "y">>, FormatB)>>),
      Para(<<TextRun(<<"i", "2">>, FormatA)>>) }

\* the first t paragraphs at the top level, the others each in a cell of the
\* one row of one table
MakeDoc(ps, t) ==
    [paragraphs |-> SubSeq(ps, 1, t),
     tables |-> IF t = Len(ps) THEN <<>>
                ELSE << << [c \in 1..(Len(ps) - t) |-> <<ps[t + c]>>] >> >>]

Docs ==
    UNION {{MakeDoc(ps, t) : t \in 0..Len(ps)} :
              ps \in SeqsUpTo(DocParagraphs, MaxParagraphs)}

\* the items of a dict: no key twice
DictItems(K, V, n) ==
    {m \in SeqsUpTo(K \X V, n) :
        \A i, j \in 1..Len(m) : i # j => m[i][1] # m[j][1]}

TextKeys == {<<"n", "1">>, <<"n", "2">>}

TextValues == {<<"B">>, <<"A", "LF", "n", "2">>}

ImageKeys == {<<"i", "1">>, <<"i", "2">>}

ImagePaths == {"a.jpg", "b.jpg"}

ExistingFiles == {"a.jpg"}

\* image_width_inches of the two profiles (main2.py:220, 231), in hundredths
ImageWidths == {80, 175}

\* ---- a call of table_to_dicts: the columns "N" (a text), "M" (a number),
\* "id" and "I" (the image path)
ColN == <<"N">>
ColM == <<"M">>
ColId == <<"i", "d">>
ColI == <<"I">>
ColN1 == <<"N", "1">>

ColumnLists == {<<ColN, ColId, ColI>>, <<ColId, ColM, ColN>>, <<ColI>>, <<ColN, ColN1>>}

ImageColumns == {ColI, ColM}

RowA == (ColN :> <<"str", <<"A">>>>) @@ (ColM :> <<"int", 12>>)
            @@ (ColId :> <<"int", 7>>) @@ (ColI :> <<"str", <<"/", "a">>>>)
            @@ (ColN1 :> <<"str", <<"C">>>>)

RowB == (ColN :> <<"str", <<"B", "SP", "b">>>>) @@ (ColM :> <<"int", 3>>)
            @@ (ColId :> <<"int", 8>>) @@ (ColI :> <<"str", <<"b">>>>)
            @@ (ColN1 :> <<"str", <<"D">>>>)

Rows == {RowA, RowB}

(***************************************************************************)
(* The parts of the state a specification does not use.                    *)
(***************************************************************************)
BatchIdle ==
    /\ table = <<>>
    /\ columns = <<>>
    /\ count_per_doc = 1
    /\ image_column = <<>>
    /\ start = 0
    /\ result_groups = <<>>
    /\ chunks = <<>>
    /\ bpc = "idle"

ParaIdle ==
    /\ paragraph = NoParagraph
    /\ before = NoParagraph
    /\ find_text = <<>>
    /\ replace_text = <<>>
    /\ ret = -1

DocIdle ==
    /\ doc = NoDocument
    /\ doc0 = NoDocument
    /\ prev_doc = NoDocument
    /\ replacements = <<>>
    /\ image_replacements = <<>>
    /\ files = {}
    /\ width_inches = 0
    /\ n_done = 0
    /\ phase = "idle"
    /\ printed = <<>>

SplitIdle ==
    /\ split_doc = NoDocument
    /\ text_replacements = <<>>
    /\ split_at = [item |-> 0, row |-> 0, col |-> 0, para |-> 0, n |-> 0]
    /\ split_visit = [matched |-> FALSE, row |-> 0, col |-> 0, para |-> 0,
                      cell |-> <<>>, placeholder |-> <<>>, value |-> <<>>]
    /\ split_ret = "idle"
    /\ split_doc0 = NoDocument
    /\ split_out = None
    /\ split_raised = FALSE

DummyIdle ==
    /\ variant = "none"
    /\ dummy_doc = NoDocument
    /\ dummy_doc0 = NoDocument
    /\ dummy_files = <<>>
    /\ image_count = 0
    /\ dummy_at = 0
    /\ dummy_ret = "idle"
    /\ dummy_spans = <<>>

MainIdle ==
    /\ df = None
    /\ template = None
    /\ profile = [count_per_doc |-> 1, image_column |-> <<>>, image_width_inches |-> 0]
    /\ image_files = {}
    /\ groups = <<>>
    /\ group_i = 0
    /\ mpc = "idle"
    /\ main_doc = None
    /\ output = <<>>
    /\ pdfs = {}
    /\ log = <<>>
    /\ raised = {}
    /\ written = {}

ExistingIdle ==
    /\ existing_doc = NoDocument
    /\ existing_doc0 = NoDocument
    /\ new_image_path = <<>>
    /\ existing_files = {}
    /\ existing_ret = "idle"

(***************************************************************************)
(* SpecPara: one call replace_in_paragraph(paragraph, find_text,           *)
(* replace_text).                                                          *)
(***************************************************************************)
ParaInit ==
    /\ \E runs \in SeqsUpTo(ParaRuns, MaxRuns) :
          /\ paragraph = Para(runs)
          /\ before = paragraph
    /\ find_text \in ParaKeys
    /\ replace_text \in ParaValues
    /\ ret = -1
    /\ DocIdle
    /\ BatchIdle
    /\ SplitIdle
    /\ DummyIdle
    /\ MainIdle
    /\ ExistingIdle

CallReplaceInParagraph ==
    /\ ret = -1
    /\ LET out == replace_in_paragraph(paragraph, find_text, replace_text)
       IN  /\ paragraph' = out.paragraph
           /\ ret' = out.ret
    /\ UNCHANGED <<before, find_text, replace_text>>
    /\ UNCHANGED <<docVars, batchVars, splitVars, dummyVars, mainVars, existingVars>>

ParaNext == CallReplaceInParagraph

SpecPara == ParaInit /\ [][ParaNext]_vars

(***************************************************************************)
(* SpecText: replace_text_in_document(doc, replacements), one step per     *)
(* item of the map.                                                        *)
(***************************************************************************)
TextInit ==
    /\ doc \in Docs
    /\ doc0 = doc
    /\ prev_doc = doc
    /\ replacements \in DictItems(TextKeys, TextValues, MaxKeys)
    /\ image_replacements = <<>>
    /\ files = ExistingFiles
    /\ width_inches = 0
    /\ n_done = 0
    /\ phase = "text"
    /\ printed = <<>>
    /\ ParaIdle
    /\ BatchIdle
    /\ SplitIdle
    /\ DummyIdle
    /\ MainIdle
    /\ ExistingIdle

\* main2.py:18-42: one iteration of the loop over replacements.items()
ReplaceTextItem ==
    /\ phase = "text"
    /\ n_done < Len(replacements)
    /\ LET k == replacements[n_done + 1][1]
           v == replacements[n_done + 1][2]
       IN  /\ doc' = TextReplaced(doc, k, v)
           /\ printed' = Append(printed, TextPrinted(k, TextCount(doc, k, v)))
    /\ prev_doc' = doc
    /\ n_done' = n_done + 1
    /\ UNCHANGED <<doc0, replacements, image_replacements, files, width_inches, phase>>
    /\ UNCHANGED <<paraVars, batchVars, splitVars, dummyVars, mainVars, existingVars>>

\* the loop is over: replace_text_in_document returns
ReplaceTextReturn ==
    /\ phase = "text"
    /\ n_done = Len(replacements)
    /\ phase' = "done"
    /\ UNCHANGED <<doc, doc0, prev_doc, replacements, image_replacements, files,
                   width_inches, n_done, printed>>
    /\ UNCHANGED <<paraVars, batchVars, splitVars, dummyVars, mainVars, existingVars>>

TextNext == ReplaceTextItem \/ ReplaceTextReturn

SpecText == TextInit /\ [][TextNext]_vars

(***************************************************************************)
(* SpecImage: replace_images_in_document(doc, image_replacements,          *)
(* width_inches), one step per item of the map.                            *)
(***************************************************************************)
ImageInit ==
    /\ doc \in Docs
    /\ doc0 = doc
    /\ prev_doc = doc
    /\ replacements = <<>>
    /\ image_replacements \in DictItems(ImageKeys, ImagePaths, MaxKeys)
    /\ files = ExistingFiles
    /\ width_inches \in ImageWidths
    /\ n_done = 0
    /\ phase = "image"
    /\ printed = <<>>
    /\ ParaIdle
    /\ BatchIdle
    /\ SplitIdle
    /\ DummyIdle
    /\ MainIdle
    /\ ExistingIdle

\* main2.py:125-127: the file is not there: a warning, and on to the next item
ReplaceImageMissing ==
    /\ phase = "image"
    /\ n_done < Len(image_replacements)
    /\ ~PathExists(files, image_replacements[n_done + 1][2])
    /\ printed' = Append(printed, [key |-> image_replacements[n_done + 1][1],
                                   kind |-> "missing_image", count |-> 0])
    /\ prev_doc' = doc
    /\ n_done' = n_done + 1
    /\ UNCHANGED <<doc, doc0, replacements, image_replacements, files,
                   width_inches, phase>>
    /\ UNCHANGED <<paraVars, batchVars, splitVars, dummyVars, mainVars, existingVars>>

\* main2.py:129-145: the file is there: the two loops over the paragraphs
ReplaceImageItem ==
    /\ phase = "image"
    /\ n_done < Len(image_replacements)
    /\ PathExists(files, image_replacements[n_done + 1][2])
    /\ LET k == image_replacements[n_done + 1][1]
           f == image_replacements[n_done + 1][2]
       IN  /\ doc' = ImageReplaced(doc, k, f, width_inches)
           /\ printed' = Append(printed,
                  TextPrinted(k, ImageCount(doc, k, f, width_inches)))
    /\ prev_doc' = doc
    /\ n_done' = n_done + 1
    /\ UNCHANGED <<doc0, replacements, image_replacements, files,
                   width_inches, phase>>
    /\ UNCHANGED <<paraVars, batchVars, splitVars, dummyVars, mainVars, existingVars>>

ReplaceImagesReturn ==
    /\ phase = "image"
    /\ n_done = Len(image_replacements)
    /\ phase' = "done"
    /\ UNCHANGED <<doc, doc0, prev_doc, replacements, image_replacements, files,
                   width_inches, n_done, printed>>
    /\ UNCHANGED <<paraVars, batchVars, splitVars, dummyVars, mainVars, existingVars>>

ImageNext == ReplaceImageMissing \/ ReplaceImageItem \/ ReplaceImagesReturn

SpecImage == ImageInit /\ [][ImageNext]_vars

(***************************************************************************)
(* SpecBatch: table_to_dicts(table, count_per_doc, image_column), one step *)
(* per chunk.                                                              *)
(***************************************************************************)
\* short tables with every group size, and one table of LongRows rows taken
\* as one group or as two
BatchInit ==
    /\ \/ /\ columns \in ColumnLists
          /\ table \in SeqsUpTo(Rows, MaxRows)
          /\ count_per_doc \in 1..MaxGroupSize
          /\ image_column \in ImageColumns
       \/ /\ columns = <<ColN, ColN1>>
          /\ table = [r \in 1..LongRows |-> IF r = 1 THEN RowA ELSE RowB]
          /\ count_per_doc \in {LongRows - 2, LongRows}
          /\ image_column = ColI
    /\ start = 0
    /\ result_groups = <<>>
    /\ chunks = <<>>
    /\ bpc = "loop"
    /\ ParaIdle
    /\ DocIdle
    /\ SplitIdle
    /\ DummyIdle
    /\ MainIdle
    /\ ExistingIdle

\* main2.py:186-205: one iteration of the loop over the chunks
BuildGroup ==
    /\ bpc = "loop"
    /\ start < Len(table)
    /\ LET rows  == ChunkRows(Len(table), start, count_per_doc)
           chunk == [k \in 1..Len(rows) |-> table[rows[k]]]
       IN  /\ chunks' = Append(chunks, rows)
           /\ result_groups' = Append(result_groups,
                  GroupDicts(chunk, columns, image_column))
    /\ start' = start + count_per_doc
    /\ UNCHANGED <<table, columns, count_per_doc, image_column, bpc>>
    /\ UNCHANGED <<paraVars, docVars, splitVars, dummyVars, mainVars, existingVars>>

\* main2.py:207: the range is used up
TableToDictsReturn ==
    /\ bpc = "loop"
    /\ start >= Len(table)
    /\ bpc' = "done"
    /\ UNCHANGED <<table, columns, count_per_doc, image_column, start, result_groups,
                   chunks>>
    /\ UNCHANGED <<paraVars, docVars, splitVars, dummyVars, mainVars, existingVars>>

BatchNext == BuildGroup \/ TableToDictsReturn

SpecBatch == BatchInit /\ [][BatchNext]_vars

(***************************************************************************)
(* replace_text_placeholders (tests/main.py:6-113): the paragraph          *)
(* splitting mode, on the cells of the first table.                        *)
(***************************************************************************)
\* replacement_text.split('\n')
RECURSIVE SplitLines(_)
SplitLines(s) ==
    IF \A i \in 1..Len(s) : s[i] # "LF"
    THEN <<s>>
    ELSE LET i == CHOOSE n \in 1..Len(s) :
                      s[n] = "LF" /\ \A q \in 1..(n - 1) : s[q] # "LF"
         IN  <<SubSeq(s, 1, i - 1)>> \o SplitLines(SubSeq(s, i + 1, Len(s)))

\* the characters str.strip() removes
Whitespace == {"SP", "LF", "CR", "TAB"}

\* tests/main.py:70: additional_line.strip() is not empty
LineIsKept(line) == \E i \in 1..Len(line) : line[i] \notin Whitespace

\* (mutant) every line after the first becomes a paragraph
AdditionalLinesAll(lines) == Tail(lines)

\* tests/main.py:68-70: the lines after the first that get a paragraph
AdditionalLines(lines) == SelectSeq(Tail(lines), LineIsKept)

\* paragraph.text = s: the runs are dropped for one run holding s
SetParagraphText(p, s) == AppendRun(ClearParagraph(p), NewRun(s))

\* tests/main.py:55-63: the placeholder gives way to the first line
SplitFirstLine(p, placeholder, first_line) ==
    IF FirstRunWith(p, placeholder) # 0
    THEN LET i == FirstRunWith(p, placeholder)
         IN  [p EXCEPT !.runs[i] =
                 SetRunText(@, StrReplace(@.text, placeholder, first_line))]
    ELSE SetParagraphText(p, StrReplace(ParagraphText(p), placeholder, first_line))

\* tests/main.py:89-93: name, size, bold, italic and colour are assigned
CopyFont(new_run, original_run) ==
    [new_run EXCEPT !.fmt.font_name = original_run.fmt.font_name,
                    !.fmt.font_size = original_run.fmt.font_size,
                    !.fmt.bold = original_run.fmt.bold,
                    !.fmt.italic = original_run.fmt.italic,
                    !.fmt.color = original_run.fmt.color]

\* tests/main.py:71-95: the paragraph cell.add_paragraph() gives for a line
NewParagraph(p, additional_line) ==
    [style |-> p.style,
     runs |-> << IF p.runs # <<>>
                 THEN CopyFont(NewRun(additional_line), p.runs[1])
                 ELSE NewRun(additional_line) >>]

\* tests/main.py:44-99: the visit of paragraph j of a cell
SplitVisit(cell, j, placeholder, replacement_text) ==
    IF ~StrIn(placeholder, ParagraphText(cell[j]))
    THEN cell
    ELSE LET lines == SplitLines(replacement_text)
             p     == SplitFirstLine(cell[j], placeholder, lines[1])
             extra == AdditionalLines(lines)
         IN  [cell EXCEPT ![j] = p]
                 \o [q \in 1..Len(extra) |-> NewParagraph(p, extra[q])]

\* tests/main.py:34-43: the loops' next position; tbl is the table after
\* the visit, n the length of the list cell.paragraphs gave for the cell
SplitAdvance(at, tbl) ==
    IF at.para < at.n
    THEN [at EXCEPT !.para = @ + 1]
    ELSE IF at.col < Len(tbl[at.row])
    THEN [at EXCEPT !.col = @ + 1, !.para = 1, !.n = Len(tbl[at.row][at.col + 1])]
    ELSE IF at.row < Len(tbl)
    THEN [at EXCEPT !.row = @ + 1, !.col = 1, !.para = 1,
                    !.n = Len(tbl[at.row + 1][1])]
    ELSE [item |-> at.item + 1, row |-> 1, col |-> 1, para |-> 1,
          n |-> Len(tbl[1][1])]

NoPosition == [item |-> 0, row |-> 0, col |-> 0, para |-> 0, n |-> 0]

NoVisit ==
    [matched |-> FALSE, row |-> 0, col |-> 0, para |-> 0, cell |-> <<>>,
     placeholder |-> <<>>, value |-> <<>>]

\* ---- inputs: the placeholders "t1" and "t2" in the cells of a table
SplitKeys == {<<"t", "1">>, <<"t", "2">>}

SplitValues ==
    { <<"A">>,
      <<"A", "LF", "t", "2", "LF", "C">>,
      <<"A", "LF", "SP", "LF", "C">>,
      <<"LF", "B", "CR", "C", "LF">> }

ParaT1 == Para(<<TextRun(<<"t", "1">>, FormatA)>>)

ParaSplitT1 ==
    [style |-> "Heading",
     runs |-> <<TextRun(<<"x">>, FormatB), TextRun(<<"t">>, FormatA),
                TextRun(<<"1">>, FormatA)>>]

ParaTwiceT1 ==
    Para(<<TextRun(<<"x">>, FormatB), TextRun(<<"t", "1", "t", "2">>, FormatA),
           TextRun(<<"t", "1">>, FormatB)>>)

ParaY == Para(<<TextRun(<<"y">>, FormatB)>>)

SplitParagraphs == {ParaT1, ParaSplitT1, ParaTwiceT1, ParaY}

\* a cell always holds a paragraph
SplitCells == SeqsUpTo(SplitParagraphs, MaxCellParagraphs) \ {<<>>}

\* the first table: one cell, two cells in a row, or two rows
SplitTables ==
    UNION {{ << <<cell>> >>,
             << <<cell, <<ParaY, ParaTwiceT1>> >> >>,
             << <<cell>>, << <<ParaT1>> >> >> } : cell \in SplitCells}

SplitDocs ==
    {[paragraphs |-> <<ParaT1>>, tables |-> <<tbl>>] : tbl \in SplitTables}
        \union {[paragraphs |-> <<ParaT1>>, tables |-> <<>>],
                [paragraphs |-> <<>>,
                 tables |-> << << << <<ParaT1>> >> >>, << << <<ParaT1>> >> >> >>]}

(***************************************************************************)
(* SpecSplit: one call replace_text_placeholders(doc_path, output_path,    *)
(* text_replacements), a step per paragraph visited.                       *)
(***************************************************************************)
SplitInit ==
    /\ split_doc \in SplitDocs
    /\ text_replacements \in DictItems(SplitKeys, SplitValues, MaxKeys)
    /\ split_at = IF split_doc.tables = <<>>
                  THEN NoPosition
                  ELSE [item |-> 1, row |-> 1, col |-> 1, para |-> 1,
                        n |-> Len(split_doc.tables[1][1][1])]
    /\ split_visit = NoVisit
    /\ split_ret = "running"
    /\ split_doc0 = split_doc
    /\ split_out = Some(split_doc)
    /\ split_raised = FALSE
    /\ ParaIdle
    /\ DocIdle
    /\ BatchIdle
    /\ DummyIdle
    /\ MainIdle
    /\ ExistingIdle

\* tests/main.py:24-26
SplitNoTables ==
    /\ split_ret = "running"
    /\ split_doc.tables = <<>>
    /\ split_ret' = "False"
    /\ UNCHANGED <<split_doc, text_replacements, split_at, split_visit, split_doc0,
                   split_out, split_raised>>
    /\ UNCHANGED <<paraVars, docVars, batchVars, dummyVars, mainVars, existingVars>>

\* tests/main.py:43-99: one paragraph of the list cell.paragraphs gave
SplitVisitParagraph ==
    /\ split_ret = "running"
    /\ split_doc.tables # <<>>
    /\ split_at.item <= Len(text_replacements)
    /\ LET placeholder == text_replacements[split_at.item][1]
           value       == text_replacements[split_at.item][2]
           cell        == split_doc.tables[1][split_at.row][split_at.col]
           new_cell    == SplitVisit(cell, split_at.para, placeholder, value)
           new_doc     == [split_doc EXCEPT
                              !.tables[1][split_at.row][split_at.col] = new_cell]
       IN  /\ split_doc' = new_doc
           /\ split_visit' =
                 [matched |-> StrIn(placeholder, ParagraphText(cell[split_at.para])),
                  row |-> split_at.row, col |-> split_at.col,
                  para |-> split_at.para, cell |-> cell,
                  placeholder |-> placeholder, value |-> value]
           /\ split_at' = SplitAdvance(split_at, new_doc.tables[1])
    /\ UNCHANGED <<text_replacements, split_ret, split_doc0, split_out, split_raised>>
    /\ UNCHANGED <<paraVars, docVars, batchVars, dummyVars, mainVars, existingVars>>

\* tests/main.py:106-109: the document is saved
SplitSave ==
    /\ split_ret = "running"
    /\ split_doc.tables # <<>>
    /\ split_at.item > Len(text_replacements)
    /\ split_out' = Some(split_doc)
    /\ split_ret' = "True"
    /\ UNCHANGED <<split_doc, text_replacements, split_at, split_visit, split_doc0,
                   split_raised>>
    /\ UNCHANGED <<paraVars, docVars, batchVars, dummyVars, mainVars, existingVars>>

\* (mutant) there is no except clause: the exception leaves the routine
SplitOnExceptionNone == "raised"

\* tests/main.py:111-113: what the except clause returns
SplitOnException == "False"

\* tests/main.py:17-113: a statement inside the try raises an exception
\* (the copy, the opening, a replacement or the saving)
SplitRaise ==
    /\ split_ret = "running"
    /\ split_raised' = TRUE
    /\ split_ret' = SplitOnException
    /\ UNCHANGED <<split_doc, text_replacements, split_at, split_visit, split_doc0,
                   split_out>>
    /\ UNCHANGED <<paraVars, docVars, batchVars, dummyVars, mainVars, existingVars>>

SplitNext == SplitNoTables \/ SplitVisitParagraph \/ SplitSave \/ SplitRaise

SpecSplit == SplitInit /\ [][SplitNext]_vars

(***************************************************************************)
(* replace_all_images_with_dummies (tests/main.py:115-227 and              *)
(* tests/test.py:167-279, which differ in the value returned).             *)
(***************************************************************************)
\* the code points of the characters of the file names
Ord(ch) ==
    CASE ch = "." -> 46
      [] ch = "0" -> 48
      [] ch = "1" -> 49
      [] ch = "2" -> 50
      [] ch = "3" -> 51
      [] ch = "g" -> 103
      [] ch = "j" -> 106
      [] ch = "n" -> 110
      [] ch = "p" -> 112

\* a < b for two python strings
RECURSIVE StrLess(_, _)
StrLess(a, b) ==
    IF b = <<>> THEN FALSE
    ELSE IF a = <<>> THEN TRUE
    ELSE IF Head(a) # Head(b) THEN Ord(Head(a)) < Ord(Head(b))
    ELSE StrLess(Tail(a), Tail(b))

\* sorted(names)
RECURSIVE Sorted(_)
Sorted(names) ==
    IF names = {} THEN <<>>
    ELSE LET least == CHOOSE x \in names : \A y \in names : x = y \/ StrLess(x, y)
         IN  <<least>> \o Sorted(names \ {least})

\* f.endswith(suffix)
EndsWith(f, suffix) ==
    /\ Len(f) >= Len(suffix)
    /\ SubSeq(f, Len(f) - Len(suffix) + 1, Len(f)) = suffix

\* tests/main.py:131: sorted([f for f in os.listdir(dummy_dir) if f.endswith('.jpg')])
DummyFiles(listing) ==
    Sorted({f \in listing : EndsWith(f, <<".", "j", "p", "g">>)})

\* tests/main.py:152-165, 172: the width of the picture put in: the extent of
\* the old one when it has one (hundredths of an inch), else 2.0 inches
DummyWidth(run) ==
    IF run.image[1].width > 0 THEN run.image[1].width ELSE 200

\* (mutant) the first file of the pool is taken every time
DummyFileFirst(pool, count) == pool[1]

\* tests/main.py:149: dummy_files[image_count]
DummyFile(pool, count) == pool[count + 1]

\* tests/main.py:142-175: the loop over the list paragraph.runs gave: a run
\* with an image is removed and a run with the next file's picture is added
\* after the last run, while files are left
RECURSIVE DummyRuns(_, _, _)
DummyRuns(runs, count, pool) ==
    IF runs = <<>>
    THEN [kept |-> <<>>, added |-> <<>>, image_count |-> count]
    ELSE IF HasImage(Head(runs)) /\ count < Len(pool)
    THEN LET rest == DummyRuns(Tail(runs), count + 1, pool)
         IN  [rest EXCEPT !.added =
                 <<AddPicture(NewRun(<<>>), DummyFile(pool, count),
                              DummyWidth(Head(runs)))>> \o @]
    ELSE LET rest == DummyRuns(Tail(runs), count, pool)
         IN  [rest EXCEPT !.kept = <<Head(runs)>> \o @]

DummyVisit(p, count, pool) ==
    LET r == DummyRuns(p.runs, count, pool)
    IN  [paragraph |-> [p EXCEPT !.runs = r.kept \o r.added],
         image_count |-> r.image_count]

\* tests/main.py:179-181: the cells in the order of the loops over
\* doc.tables, table.rows and row.cells, each cell once
Cells(d) == Flatten(Flatten(d.tables))

\* tests/main.py:141-142 and 179-184: the paragraphs in the order in which
\* the traversal meets them, as indices into AllParagraphs(d): the top-level
\* ones, then the paragraphs of each cell, again for every further time
\* row.cells yields the cell
Visits(d, spans) ==
    LET top == Len(d.paragraphs)
        cellVisit(c) ==
            [q \in 1..Len(Cells(d)[c]) |->
                top + Len(Flatten(SubSeq(Cells(d), 1, c - 1))) + q]
    IN  [q \in 1..top |-> q]
          \o Flatten([c \in 1..Len(Cells(d)) |->
                         Flatten([n \in 1..spans[c] |-> cellVisit(c)])])

\* tests/main.py:223 (return image_count > 0), tests/test.py:275 (return True)
DummyReturn(which, count) ==
    IF which = "main" THEN (IF count > 0 THEN "True" ELSE "False") ELSE "True"

\* ---- inputs: paragraphs with pictures, a directory listing
OldPicture(w) ==
    [text |-> <<>>, fmt |-> NoFormat, image |-> Some([file |-> <<"o">>, width |-> w])]

DummyParagraphs ==
    { Para(<<OldPicture(80)>>),
      Para(<<TextRun(<<"x">>, FormatA), OldPicture(0), TextRun(<<"y">>, FormatB)>>),
      Para(<<OldPicture(175), OldPicture(0)>>),
      Para(<<TextRun(<<"y">>, FormatB)>>) }

DummyDocs ==
    UNION {{MakeDoc(ps, t) : t \in 0..Len(ps)} :
              ps \in SeqsUpTo(DummyParagraphs, MaxDummyParagraphs)}

DummyNames ==
    { <<"1", ".", "j", "p", "g">>, <<"2", ".", "j", "p", "g">>,
      <<"1", "0", ".", "j", "p", "g">>, <<"3", ".", "p", "n", "g">> }

(***************************************************************************)
(* SpecDummies: one call replace_all_images_with_dummies(doc_path,         *)
(* output_path, dummy_dir), a step per paragraph visited.                  *)
(***************************************************************************)
DummiesInit ==
    /\ variant \in {"main", "test"}
    /\ dummy_doc \in DummyDocs
    /\ dummy_doc0 = dummy_doc
    /\ dummy_files \in {DummyFiles(listing) : listing \in SUBSET DummyNames}
    /\ image_count = 0
    /\ dummy_at = 0
    /\ dummy_ret = "running"
    /\ dummy_spans = [c \in 1..Len(Cells(dummy_doc)) |-> 1]
    /\ ParaIdle
    /\ DocIdle
    /\ BatchIdle
    /\ SplitIdle
    /\ MainIdle
    /\ ExistingIdle

\* tests/main.py:132-134: no .jpg in the directory
DummiesNoPool ==
    /\ dummy_ret = "running"
    /\ dummy_files = <<>>
    /\ dummy_ret' = "False"
    /\ UNCHANGED <<variant, dummy_doc, dummy_doc0, dummy_files, image_count, dummy_at,
                   dummy_spans>>
    /\ UNCHANGED <<paraVars, docVars, batchVars, splitVars, mainVars, existingVars>>

\* tests/main.py:141-176 and 179-219: the next paragraph of the traversal
DummiesVisitParagraph ==
    /\ dummy_ret = "running"
    /\ dummy_files # <<>>
    /\ dummy_at < Len(Visits(dummy_doc, dummy_spans))
    /\ LET ps == AllParagraphs(dummy_doc)
           at == Visits(dummy_doc, dummy_spans)[dummy_at + 1]
           v  == DummyVisit(ps[at], image_count, dummy_files)
       IN  /\ dummy_doc' =
                 WithParagraphs(dummy_doc, [ps EXCEPT ![at] = v.paragraph])
           /\ image_count' = v.image_count
    /\ dummy_at' = dummy_at + 1
    /\ UNCHANGED <<variant, dummy_doc0, dummy_files, dummy_ret, dummy_spans>>
    /\ UNCHANGED <<paraVars, docVars, batchVars, splitVars, mainVars, existingVars>>

\* tests/main.py:221-223: the document is saved and the result returned
DummiesSave ==
    /\ dummy_ret = "running"
    /\ dummy_files # <<>>
    /\ dummy_at = Len(Visits(dummy_doc, dummy_spans))
    /\ dummy_ret' = DummyReturn(variant, image_count)
    /\ UNCHANGED <<variant, dummy_doc, dummy_doc0, dummy_files, image_count, dummy_at,
                   dummy_spans>>
    /\ UNCHANGED <<paraVars, docVars, batchVars, splitVars, mainVars, existingVars>>

DummiesNext == DummiesNoPool \/ DummiesVisitParagraph \/ DummiesSave

SpecDummies == DummiesInit /\ [][DummiesNext]_vars

(***************************************************************************)
(* SpecMerged: the same call on a document whose table may hold cells      *)
(* merged across columns: row.cells yields such a cell once for every grid *)
(* column it spans.                                                        *)
(***************************************************************************)
MaxSpan == 2

MergedInit ==
    /\ variant \in {"main", "test"}
    /\ dummy_doc \in DummyDocs
    /\ dummy_doc0 = dummy_doc
    /\ dummy_files \in {DummyFiles(listing) : listing \in SUBSET DummyNames}
    /\ image_count = 0
    /\ dummy_at = 0
    /\ dummy_ret = "running"
    /\ dummy_spans \in [1..Len(Cells(dummy_doc)) -> 1..MaxSpan]
    /\ ParaIdle
    /\ DocIdle
    /\ BatchIdle
    /\ SplitIdle
    /\ MainIdle
    /\ ExistingIdle

SpecMerged == MergedInit /\ [][DummiesNext]_vars

(***************************************************************************)
(* main (main2.py:209-318)                                                 *)
(***************************************************************************)
\* main2.py:183-207: table_to_dicts as a whole: a group per chunk
table_to_dicts(tbl, cols, size, image_col) ==
    [j \in 1..((Len(tbl) + size - 1) \div size) |->
        LET rows == ChunkRows(Len(tbl), (j - 1) * size, size)
        IN  GroupDicts([k \in 1..Len(rows) |-> tbl[rows[k]]], cols, image_col)]

\* main2.py:18-42: replace_text_in_document as a whole: item after item
RECURSIVE replace_text_in_document(_, _)
replace_text_in_document(d, items) ==
    IF items = <<>> THEN d
    ELSE replace_text_in_document(
             TextReplaced(d, Head(items)[1], Head(items)[2]), Tail(items))

\* main2.py:121-145: replace_images_in_document as a whole: an item whose
\* file does not exist is passed over
RECURSIVE replace_images_in_document(_, _, _, _)
replace_images_in_document(d, items, fs, width) ==
    IF items = <<>> THEN d
    ELSE replace_images_in_document(
             IF PathExists(fs, Head(items)[2])
             THEN ImageReplaced(d, Head(items)[1], Head(items)[2], width)
             ELSE d,
             Tail(items), fs, width)

\* (mutant) one leading '/' is removed
LStripOnce(path) ==
    IF path # <<>> /\ Head(path) = "/" THEN Tail(path) ELSE path

\* path.lstrip('/')
RECURSIVE LStrip(_)
LStrip(path) ==
    IF path # <<>> /\ Head(path) = "/" THEN LStrip(Tail(path)) ELSE path

\* main2.py:291-295
FixedImageDict(image_dict) ==
    DictAfter([n \in 1..Len(image_dict) |->
                  <<image_dict[n][1], LStrip(image_dict[n][2])>>])

\* (mutant) the call of convert stands outside every try
EnclosingNoInner(step) ==
    CASE step = "load" -> "csv"
      [] step \in {"template", "split", "convert"} -> "none"
      [] OTHER -> "outer"

\* (mutant) read_csv stands outside every try
EnclosingNoCsv(step) ==
    CASE step \in {"load", "template", "split"} -> "none"
      [] step = "convert" -> "inner"
      [] OTHER -> "outer"

\* (mutant) the steps of a group stand outside every try
EnclosingNoOuter(step) ==
    CASE step = "load" -> "csv"
      [] step = "convert" -> "inner"
      [] OTHER -> "none"

\* the try statement that encloses a statement of main most closely: the one
\* around read_csv (256-263), the one around a group's steps (281-314), the
\* one around convert (307-311), or none
Enclosing(step) ==
    CASE step = "load" -> "csv"
      [] step \in {"template", "split"} -> "none"
      [] step = "convert" -> "inner"
      [] OTHER -> "outer"

\* main2.py:276: the loop goes on with the next group, or is over
MainEndIteration(event) ==
    /\ log' = Append(log, <<group_i, event>>)
    /\ group_i' = group_i + 1
    /\ mpc' = IF group_i + 1 < Len(groups) THEN "copy" ELSE "done"

\* an exception raised by the statement `step`
MainRaised(step) ==
    /\ raised' = raised \union {<<group_i, step>>}
    /\ IF Enclosing(step) = "inner" THEN MainEndIteration("pdf_failed")
       ELSE IF Enclosing(step) = "outer" THEN MainEndIteration("error")
       ELSE IF Enclosing(step) = "csv"
       THEN /\ log' = Append(log, <<group_i, "csv_error">>)
            /\ mpc' = "done"
            /\ UNCHANGED group_i
       ELSE /\ mpc' = "crashed"
            /\ UNCHANGED <<log, group_i>>

\* a statement of a group's iteration that went well
MainStepDone(event, next) ==
    /\ raised' = raised
    /\ log' = Append(log, <<group_i, event>>)
    /\ mpc' = next
    /\ UNCHANGED group_i

\* output_prefix of the profile (main2.py:217, 228)
OutputPrefix == <<"P">>

\* (mutant) the group index is not padded
OutputFileUnpadded(i) == OutputPrefix \o <<"_">> \o Decimal(i) \o <<".docx">>

\* main2.py:277: f"{output_prefix}_{i:02d}.docx"
OutputFile(i) == OutputPrefix \o <<"_">> \o ZeroPad(Decimal(i), 2) \o <<".docx">>

\* main2.py:305: f"{output_prefix}_{i:02d}.pdf"
PdfFile(i) == OutputPrefix \o <<"_">> \o ZeroPad(Decimal(i), 2) \o <<".pdf">>

\* ---- inputs: the CSV file, the template, the profile
MainColumns == <<ColN, ColId, ColI>>

\* a row whose image path starts with two separators
RowC == (ColN :> <<"str", <<"C">>>>) @@ (ColM :> <<"int", 5>>)
            @@ (ColId :> <<"int", 9>>)
            @@ (ColI :> <<"str", <<"/", "/", "i", "/", "b">>>>)
            @@ (ColN1 :> <<"str", <<"E">>>>)

MainRows == Rows \union {RowC}

MainTables ==
    {[rows |-> rows, columns |-> MainColumns] :
        rows \in SeqsUpTo(MainRows, MaxMainRows)}

MainTemplates ==
    { [paragraphs |->
          <<Para(<<TextRun(<<"N", "0", "1">>, FormatA)>>),
            Para(<<TextRun(<<"N", "0">>, FormatA), TextRun(<<"2", "SP">>, FormatB),
                   TextRun(<<"i", "d", "0", "1">>, FormatB)>>)>>,
       tables |->
          << << << <<Para(<<TextRun(<<"I", "0", "1">>, FormatA)>>)>>,
                   <<Para(<<TextRun(<<"x">>, FormatB), TextRun(<<"I", "0", "2">>, FormatA)>>)>>
                >> >> >>],
      [paragraphs |->
          <<Para(<<TextRun(<<"I", "0", "1", "SP", "N", "0", "1">>, FormatB)>>)>>,
       tables |-> <<>>] }

\* count_per_doc, image_column and image_width_inches of a profile
\* (main2.py:211-233), the groups scaled down to one or two rows
MainProfiles ==
    { [count_per_doc |-> 1, image_column |-> ColI, image_width_inches |-> 175],
      [count_per_doc |-> 2, image_column |-> ColI, image_width_inches |-> 80] }

MainImageFiles == { {<<"a">>}, {<<"a">>, <<"b">>, <<"i", "/", "b">>} }

(***************************************************************************)
(* SpecMain: one run of main, a step per statement that can fail.          *)
(***************************************************************************)
MainInit ==
    /\ df \in {None} \union {Some(t) : t \in MainTables}
    /\ template \in {None} \union {Some(d) : d \in MainTemplates}
    /\ profile \in MainProfiles
    /\ image_files \in MainImageFiles
    /\ groups = <<>>
    /\ group_i = 0
    /\ mpc = "load"
    /\ main_doc = None
    /\ output = <<>>
    /\ pdfs = {}
    /\ log = <<>>
    /\ raised = {}
    /\ written = {}
    /\ ParaIdle
    /\ DocIdle
    /\ BatchIdle
    /\ SplitIdle
    /\ DummyIdle
    /\ ExistingIdle

\* main2.py:256-263
MainLoadCsv ==
    /\ mpc = "load"
    /\ IF df # None
       THEN MainStepDone("loaded", "template")
       ELSE MainRaised("load")
    /\ UNCHANGED <<df, template, profile, image_files, groups, main_doc, output, pdfs,
                   written>>
    /\ UNCHANGED <<paraVars, docVars, batchVars, splitVars, dummyVars,
                   existingVars>>

\* main2.py:266-268
MainCheckTemplate ==
    /\ mpc = "template"
    /\ IF template # None
       THEN MainStepDone("template_found", "split")
       ELSE MainStepDone("template_missing", "done")
    /\ UNCHANGED <<df, template, profile, image_files, groups, main_doc, output, pdfs,
                   written>>
    /\ UNCHANGED <<paraVars, docVars, batchVars, splitVars, dummyVars,
                   existingVars>>

\* main2.py:271-276
MainSplit ==
    /\ mpc = "split"
    /\ LET gs == table_to_dicts(df[1].rows, df[1].columns, profile.count_per_doc,
                                profile.image_column)
       IN  /\ groups' = gs
           /\ output' = [g \in 1..Len(gs) |-> None]
           /\ MainStepDone("split", IF gs = <<>> THEN "done" ELSE "copy")
    /\ UNCHANGED <<df, template, profile, image_files, main_doc, pdfs, written>>
    /\ UNCHANGED <<paraVars, docVars, batchVars, splitVars, dummyVars,
                   existingVars>>

\* main2.py:283: shutil.copy2(template_file, output_file)
MainCopy ==
    /\ mpc = "copy"
    /\ \E ok \in BOOLEAN :
          IF ok
          THEN /\ output' = [output EXCEPT ![group_i + 1] = template]
               /\ written' = written \union {OutputFile(group_i)}
               /\ MainStepDone("copied", "open")
          ELSE /\ MainRaised("copy")
               /\ UNCHANGED <<output, written>>
    /\ UNCHANGED <<df, template, profile, image_files, groups, main_doc, pdfs>>
    /\ UNCHANGED <<paraVars, docVars, batchVars, splitVars, dummyVars,
                   existingVars>>

\* main2.py:284: doc = Document(output_file)
MainOpen ==
    /\ mpc = "open"
    /\ \E ok \in BOOLEAN :
          IF ok
          THEN /\ main_doc' = output[group_i + 1]
               /\ MainStepDone("opened", "text")
          ELSE /\ MainRaised("open")
               /\ UNCHANGED main_doc
    /\ UNCHANGED <<df, template, profile, image_files, groups, output, pdfs, written>>
    /\ UNCHANGED <<paraVars, docVars, batchVars, splitVars, dummyVars,
                   existingVars>>

\* main2.py:288: replace_text_in_document(doc, text_dict)
MainText ==
    /\ mpc = "text"
    /\ \E ok \in BOOLEAN :
          IF ok
          THEN /\ main_doc' = Some(replace_text_in_document(
                                      main_doc[1], groups[group_i + 1].text_dict))
               /\ MainStepDone("text", "images")
          ELSE /\ MainRaised("text")
               /\ UNCHANGED main_doc
    /\ UNCHANGED <<df, template, profile, image_files, groups, output, pdfs, written>>
    /\ UNCHANGED <<paraVars, docVars, batchVars, splitVars, dummyVars,
                   existingVars>>

\* main2.py:291-298: the paths fixed, replace_images_in_document
MainImages ==
    /\ mpc = "images"
    /\ \E ok \in BOOLEAN :
          IF ok
          THEN /\ main_doc' = Some(replace_images_in_document(
                                      main_doc[1],
                                      FixedImageDict(groups[group_i + 1].image_dict),
                                      image_files, profile.image_width_inches))
               /\ MainStepDone("images", "save")
          ELSE /\ MainRaised("images")
               /\ UNCHANGED main_doc
    /\ UNCHANGED <<df, template, profile, image_files, groups, output, pdfs, written>>
    /\ UNCHANGED <<paraVars, docVars, batchVars, splitVars, dummyVars,
                   existingVars>>

\* main2.py:301: doc.save(output_file)
MainSave ==
    /\ mpc = "save"
    /\ \E ok \in BOOLEAN :
          IF ok
          THEN /\ output' = [output EXCEPT ![group_i + 1] = main_doc]
               /\ written' = written \union {OutputFile(group_i)}
               /\ MainStepDone("saved", "convert")
          ELSE /\ MainRaised("save")
               /\ UNCHANGED <<output, written>>
    /\ UNCHANGED <<df, template, profile, image_files, groups, main_doc, pdfs>>
    /\ UNCHANGED <<paraVars, docVars, batchVars, splitVars, dummyVars,
                   existingVars>>

\* main2.py:305-311: convert(output_file, pdf_file)
MainConvert ==
    /\ mpc = "convert"
    /\ \E ok \in BOOLEAN :
          IF ok
          THEN /\ pdfs' = pdfs \union {group_i}
               /\ written' = written \union {PdfFile(group_i)}
               /\ MainEndIteration("pdf")
               /\ UNCHANGED raised
          ELSE /\ MainRaised("convert")
               /\ UNCHANGED <<pdfs, written>>
    /\ UNCHANGED <<df, template, profile, image_files, groups, main_doc, output>>
    /\ UNCHANGED <<paraVars, docVars, batchVars, splitVars, dummyVars,
                   existingVars>>

MainNext ==
    \/ MainLoadCsv
    \/ MainCheckTemplate
    \/ MainSplit
    \/ MainCopy
    \/ MainOpen
    \/ MainText
    \/ MainImages
    \/ MainSave
    \/ MainConvert

SpecMain == MainInit /\ [][MainNext]_vars

\* main runs its statements one after another: each one returns or raises
LiveMain == SpecMain /\ WF_vars(MainNext)

(***************************************************************************)
(* replace_existing_image (tests/test.py:91-165)                           *)
(***************************************************************************)
\* tests/test.py:144-146: the width of the new picture: the extent of the old
\* one when it has one (hundredths of an inch), else 5.33 inches
ExistingWidth(run) ==
    IF run.image[1].width > 0 THEN run.image[1].width ELSE 533

\* tests/test.py:114-118: the first run of the paragraph with an image (0: none)
FirstImageRun(p) ==
    IF \E r \in 1..Len(p.runs) : HasImage(p.runs[r])
    THEN CHOOSE r \in 1..Len(p.runs) :
            /\ HasImage(p.runs[r])
            /\ \A s \in 1..(r - 1) : ~HasImage(p.runs[s])
    ELSE 0

\* tests/test.py:113-155: the first top-level paragraph with an image (0: none)
FirstImageParagraph(d) ==
    IF \E q \in 1..Len(d.paragraphs) : FirstImageRun(d.paragraphs[q]) # 0
    THEN CHOOSE q \in 1..Len(d.paragraphs) :
            /\ FirstImageRun(d.paragraphs[q]) # 0
            /\ \A s \in 1..(q - 1) : FirstImageRun(d.paragraphs[s]) = 0
    ELSE 0

\* paragraph._element.remove(run._element)
RemoveRun(p, r) ==
    [p EXCEPT !.runs = SubSeq(@, 1, r - 1) \o SubSeq(@, r + 1, Len(@))]

\* tests/test.py:137-149: the run with the image is removed, and a run with
\* the new picture is added after the paragraph's last run
ExistingImageReplaced(p, path) ==
    AppendRun(RemoveRun(p, FirstImageRun(p)),
              AddPicture(NewRun(<<>>), path, ExistingWidth(p.runs[FirstImageRun(p)])))

\* ---- inputs
NewImagePaths == {<<"a">>, <<"b">>}

(***************************************************************************)
(* SpecExisting: one call replace_existing_image(doc_path, output_path,    *)
(* new_image_path).                                                        *)
(***************************************************************************)
ExistingInit ==
    /\ existing_doc \in DummyDocs
    /\ existing_doc0 = existing_doc
    /\ new_image_path \in NewImagePaths
    /\ existing_files = {<<"a">>}
    /\ existing_ret = "running"
    /\ ParaIdle
    /\ DocIdle
    /\ BatchIdle
    /\ SplitIdle
    /\ DummyIdle
    /\ MainIdle

\* tests/test.py:101-103: the new image file does not exist
ExistingNoFile ==
    /\ existing_ret = "running"
    /\ new_image_path \notin existing_files
    /\ existing_ret' = "False"
    /\ UNCHANGED <<existing_doc, existing_doc0, new_image_path, existing_files>>
    /\ UNCHANGED <<paraVars, docVars, batchVars, splitVars, dummyVars, mainVars>>

\* tests/test.py:113-163: the first image is found, replaced, and the
\* document saved
ExistingReplace ==
    /\ existing_ret = "running"
    /\ new_image_path \in existing_files
    /\ FirstImageParagraph(existing_doc) # 0
    /\ existing_doc' =
          [existing_doc EXCEPT !.paragraphs[FirstImageParagraph(existing_doc)] =
              ExistingImageReplaced(@, new_image_path)]
    /\ existing_ret' = "True"
    /\ UNCHANGED <<existing_doc0, new_image_path, existing_files>>
    /\ UNCHANGED <<paraVars, docVars, batchVars, splitVars, dummyVars, mainVars>>

\* tests/test.py:156-158: no top-level paragraph has an image
ExistingNotFound ==
    /\ existing_ret = "running"
    /\ new_image_path \in existing_files
    /\ FirstImageParagraph(existing_doc) = 0
    /\ existing_ret' = "False"
    /\ UNCHANGED <<existing_doc, existing_doc0, new_image_path, existing_files>>
    /\ UNCHANGED <<paraVars, docVars, batchVars, splitVars, dummyVars, mainVars>>

ExistingNext == ExistingNoFile \/ ExistingReplace \/ ExistingNotFound

SpecExisting == ExistingInit /\ [][ExistingNext]_vars

(***************************************************************************)
(* SpecPass: one generation pass of main (main2.py:286-298):               *)
(* replace_text_in_document(doc, text_dict) and then                       *)
(* replace_images_in_document(doc, image_dict, width_inches) on the same   *)
(* document, one step per item of either map.                              *)
(***************************************************************************)
\* ---- inputs: paragraphs with a text key, an image key, or both
PassParagraphs ==
    { Para(<<TextRun(<<"n", "1">>, FormatA)>>),
      Para(<<TextRun(<<"n", "1", "SP">>, FormatA), TextRun(<<"i", "1">>, FormatB)>>),
      Para(<<TextRun(<<"n", "2">>, FormatB)>>),
      Para(<<TextRun(<<"x">>, FormatA), TextRun(<<"i">>, FormatB),
             TextRun(<<"1", "y">>, FormatB)>>) }

PassDocs ==
    UNION {{MakeDoc(ps, t) : t \in 0..Len(ps)} :
              ps \in SeqsUpTo(PassParagraphs, MaxParagraphs)}

PassInit ==
    /\ doc \in PassDocs
    /\ doc0 = doc
    /\ prev_doc = doc
    /\ replacements \in DictItems(TextKeys, TextValues, MaxKeys)
    /\ image_replacements \in DictItems(ImageKeys, ImagePaths, MaxKeys)
    /\ files = ExistingFiles
    /\ width_inches \in ImageWidths
    /\ n_done = 0
    /\ phase = "text"
    /\ printed = <<>>
    /\ ParaIdle
    /\ BatchIdle
    /\ SplitIdle
    /\ DummyIdle
    /\ MainIdle
    /\ ExistingIdle

\* main2.py:288-298: replace_text_in_document has returned, and
\* replace_images_in_document is called on the same document
PassTextReturn ==
    /\ phase = "text"
    /\ n_done = Len(replacements)
    /\ phase' = "image"
    /\ n_done' = 0
    /\ prev_doc' = doc
    /\ UNCHANGED <<doc, doc0, replacements, image_replacements, files,
                   width_inches, printed>>
    /\ UNCHANGED <<paraVars, batchVars, splitVars, dummyVars, mainVars, existingVars>>

PassNext ==
    \/ ReplaceTextItem
    \/ PassTextReturn
    \/ ReplaceImageMissing
    \/ ReplaceImageItem
    \/ ReplaceImagesReturn

SpecPass == PassInit /\ [][PassNext]_vars

(***************************************************************************)
(* C1: when some single run of the paragraph contains the key verbatim,    *)
(* replace_in_paragraph keeps the number of runs, leaves every run other   *)
(* than the first one containing the key exactly as it was (text and       *)
(* formatting), keeps that run's formatting, and sets that run's text to   *)
(* its old text with the key replaced (a text that differs from the old    *)
(* one whenever the value differs from the key).                           *)
(***************************************************************************)
C1_SingleRunFrame ==
    (ret # -1 /\ FirstRunWith(before, find_text) # 0) =>
        LET i == FirstRunWith(before, find_text)
        IN  /\ ret = 1
            /\ paragraph.style = before.style
            /\ Len(paragraph.runs) = Len(before.runs)
            /\ \A j \in 1..Len(before.runs) :
                  j # i => paragraph.runs[j] = before.runs[j]
            /\ paragraph.runs[i].fmt = before.runs[i].fmt
            /\ paragraph.runs[i].text =
                  StoredText(StrReplace(before.runs[i].text, find_text, replace_text))
            /\ (replace_text # find_text =>
                  paragraph.runs[i].text # before.runs[i].text)

\* the key stands twice in the second run and in no earlier one, beside a run
\* of another format: the call has changed the second run only
C1_Witness ==
    /\ ret = 1
    /\ Len(before.runs) = 2
    /\ FirstRunWith(before, find_text) = 2
    /\ before.runs[1].text # <<>>
    /\ before.runs[1].fmt # before.runs[2].fmt
    /\ StrCount(before.runs[2].text, find_text) = 2
    /\ paragraph.runs[2].text # before.runs[2].text

(***************************************************************************)
(* C2: a key that stands in the text of no paragraph (top-level or in a    *)
(* table cell) of the document when its item is processed is counted zero  *)
(* times, is reported as not found, and leaves the whole document as it    *)
(* was; and for every paragraph whose text does not hold the key,          *)
(* replace_in_paragraph returns 0 and leaves the paragraph as it was.      *)
(***************************************************************************)
C2_AbsentKeyNoChange ==
    (phase \in {"text", "done"} /\ n_done >= 1) =>
        LET k  == replacements[n_done][1]
            v  == LineBreaks(replacements[n_done][2])
            ps == AllParagraphs(prev_doc)
            Absent(i) == ~StrIn(k, ParagraphText(ps[i]))
        IN  /\ (\A i \in 1..Len(ps) : Absent(i)) =>
                  /\ printed[n_done].count = 0
                  /\ printed[n_done].kind = "not_found"
                  /\ doc = prev_doc
            /\ \A i \in 1..Len(ps) : Absent(i) =>
                  /\ replace_in_paragraph(ps[i], k, v) = [paragraph |-> ps[i], ret |-> 0]
                  /\ AllParagraphs(doc)[i] = ps[i]

\* an item whose key is nowhere in a document of a top-level paragraph of two
\* runs and a table cell has been processed
C2_Witness ==
    /\ phase = "text"
    /\ n_done = 1
    /\ Len(replacements) = 2
    /\ Len(prev_doc.paragraphs) = 1
    /\ Len(prev_doc.paragraphs[1].runs) = 2
    /\ prev_doc.tables # <<>>
    /\ \A i \in 1..Len(AllParagraphs(prev_doc)) :
          ~StrIn(replacements[1][1], ParagraphText(AllParagraphs(prev_doc)[i]))
    /\ printed[1].kind = "not_found"

C8_ParagraphBecomesImage ==
    (phase \in {"image", "done"} /\ n_done >= 1
        /\ image_replacements[n_done][2] \in files) =>
        LET k  == image_replacements[n_done][1]
            f  == image_replacements[n_done][2]
            ps == AllParagraphs(prev_doc)
            qs == AllParagraphs(doc)
        IN  /\ Len(qs) = Len(ps)
            /\ \A i \in 1..Len(ps) :
                  IF StrIn(k, ParagraphText(ps[i]))
                  THEN /\ Len(qs[i].runs) = 1
                       /\ qs[i].runs[1].image =
                             Some([file |-> f, width |-> width_inches])
                       /\ qs[i].runs[1].text = <<>>
                       /\ ParagraphText(qs[i]) = <<>>
                       /\ replace_text_with_image_in_paragraph(
                              ps[i], k, f, width_inches) =
                             [paragraph |-> qs[i], ret |-> 1]
                  ELSE /\ qs[i] = ps[i]
                       /\ replace_text_with_image_in_paragraph(
                              ps[i], k, f, width_inches) =
                             [paragraph |-> ps[i], ret |-> 0]

\* a cell paragraph of three runs "x", "i", "1y" has become one image run,
\* and a top-level paragraph without the placeholder has stayed
C8_Witness ==
    /\ phase \in {"image", "done"}
    /\ n_done >= 1
    /\ image_replacements[n_done][2] \in files
    /\ Len(prev_doc.paragraphs) = 1
    /\ ~StrIn(image_replacements[n_done][1], ParagraphText(prev_doc.paragraphs[1]))
    /\ prev_doc.tables # <<>>
    /\ Len(CellParagraphs(prev_doc)[1].runs) = 3
    /\ StrIn(image_replacements[n_done][1], ParagraphText(CellParagraphs(prev_doc)[1]))
    /\ Len(CellParagraphs(doc)[1].runs) = 1
    /\ HasImage(CellParagraphs(doc)[1].runs[1])

(***************************************************************************)
(* C9: an item whose image path is not an existing file is skipped: the    *)
(* step raises nothing, prints the warning and leaves every paragraph as   *)
(* it was; every item is handled (one line printed per item), and the      *)
(* document replace_images_in_document returns with is the one the items   *)
(* with an existing file alone would have produced, in their order.        *)
(***************************************************************************)
RECURSIVE ImagesOf(_, _, _)
ImagesOf(d, items, width) ==
    IF items = <<>> THEN d
    ELSE ImagesOf(ImageReplaced(d, Head(items)[1], Head(items)[2], width),
                  Tail(items), width)

C9_MissingImageSkipped ==
    LET Present(item) == item[2] \in files
    IN  /\ phase \in {"image", "done"} => Len(printed) = n_done
        /\ (phase \in {"image", "done"} /\ n_done >= 1
              /\ ~Present(image_replacements[n_done])) =>
              /\ doc = prev_doc
              /\ printed[n_done].kind = "missing_image"
        /\ phase = "done" =>
              /\ n_done = Len(image_replacements)
              /\ doc = ImagesOf(doc0, SelectSeq(image_replacements, Present),
                                width_inches)

\* the first item's file is missing and its placeholder is still in the
\* document, the second item's image has been put in
C9_Witness ==
    /\ phase = "done"
    /\ Len(image_replacements) = 2
    /\ image_replacements[1][2] \notin files
    /\ image_replacements[2][2] \in files
    /\ \E i \in 1..Len(AllParagraphs(doc)) :
          StrIn(image_replacements[1][1], ParagraphText(AllParagraphs(doc)[i]))
    /\ \E i \in 1..Len(AllParagraphs(doc)) :
          /\ StrIn(image_replacements[2][1], ParagraphText(AllParagraphs(doc0)[i]))
          /\ Len(AllParagraphs(doc)[i].runs) = 1
          /\ HasImage(AllParagraphs(doc)[i].runs[1])

(***************************************************************************)
(* C3: for n rows and a group size g >= 1, table_to_dicts returns          *)
(* ceil(n/g) groups (none for n = 0); group j (0-based) is built from the  *)
(* rows j*g .. min(n, (j+1)*g)-1 in input order; every group but the last  *)
(* covers g rows, the last between 1 and g, and every row is in exactly    *)
(* one group.                                                              *)
(***************************************************************************)
C3_Groups ==
    bpc = "done" =>
        LET n == Len(table)
            g == count_per_doc
            m == (n + g - 1) \div g
            RowsOf(j) == [k \in 1..(Min(n, (j + 1) * g) - j * g) |-> j * g + k]
        IN  /\ Len(result_groups) = m
            /\ Len(chunks) = m
            /\ \A j \in 0..(m - 1) :
                  /\ chunks[j + 1] = RowsOf(j)
                  /\ result_groups[j + 1] =
                        GroupDicts([k \in 1..Len(RowsOf(j)) |-> table[RowsOf(j)[k]]],
                                   columns, image_column)
                  /\ j < m - 1 => Len(chunks[j + 1]) = g
                  /\ j = m - 1 => Len(chunks[j + 1]) \in 1..g
            /\ \A r \in 1..n :
                  Cardinality({j \in 1..m :
                      \E k \in 1..Len(chunks[j]) : chunks[j][k] = r}) = 1

\* four rows in groups of three: a group of three rows and a group of one
C3_Witness ==
    /\ bpc = "done"
    /\ Len(table) = 4
    /\ count_per_doc = 3
    /\ Len(result_groups) = 2
    /\ chunks = << <<1, 2, 3>>, <<4>> >>
    /\ result_groups[1] # result_groups[2]

(***************************************************************************)
(* C4 (as claimed): positions restart at 1 in every group; for the row at  *)
(* offset k and every column C other than the image column and 'id', the   *)
(* text map holds C followed by the two-digit position k+1, mapped to the  *)
(* stringified cell; the image map holds the image column's key mapped to  *)
(* the row's image path; the image column and 'id' give no text key.       *)
(***************************************************************************)
TwoDigitKey(column, pos) ==
    column \o (IF pos < 10 THEN <<"0", Digit(pos)>> ELSE Decimal(pos))

IsTextColumn(col) == col # image_column /\ col # <<"i", "d">>

\* the group's text map and image map hold the pair (column c, position k)
HoldsPair(j, c, k) ==
    LET col == columns[c]
        row == table[chunks[j][k]]
        grp == result_groups[j]
    IN  /\ IsTextColumn(col) =>
              /\ DictHas(grp.text_dict, TwoDigitKey(col, k))
              /\ DictGet(grp.text_dict, TwoDigitKey(col, k)) = Str(row[col])
        /\ col = image_column =>
              /\ DictHas(grp.image_dict, TwoDigitKey(col, k))
              /\ DictGet(grp.image_dict, TwoDigitKey(col, k)) = Str(row[col])

\* every key of the text map comes from a text column at a position of the
\* group, every key of the image map from the image column
OnlyOwnKeys(j) ==
    LET grp == result_groups[j]
    IN  /\ \A n \in 1..Len(grp.text_dict) :
              \E c \in 1..Len(columns), k \in 1..Len(chunks[j]) :
                  /\ IsTextColumn(columns[c])
                  /\ grp.text_dict[n][1] = TwoDigitKey(columns[c], k)
        /\ \A n \in 1..Len(grp.image_dict) :
              \E c \in 1..Len(columns), k \in 1..Len(chunks[j]) :
                  /\ columns[c] = image_column
                  /\ grp.image_dict[n][1] = TwoDigitKey(image_column, k)

\* C4: every (column, position) pair of a group has its key in the group's
\* map, with the value of its own cell
C4_AsClaimed ==
    \A j \in 1..Len(result_groups) :
        /\ OnlyOwnKeys(j)
        /\ \A k \in 1..Len(chunks[j]), c \in 1..Len(columns) : HoldsPair(j, c, k)

(***************************************************************************)
(* What table_to_dicts does give (beside C4): the same, for every pair      *)
(* (column, position) of the group whose key no other pair of the group    *)
(* formats to; this is every pair when the group has at most 99 rows.      *)
(***************************************************************************)
KeyIsOwn(j, c, k) ==
    \A c2 \in 1..Len(columns), k2 \in 1..Len(chunks[j]) :
        (IsTextColumn(columns[c2]) /\ IsTextColumn(columns[c]) /\ <<c2, k2>> # <<c, k>>)
            => TwoDigitKey(columns[c2], k2) # TwoDigitKey(columns[c], k)

KeysOfDistinctPairs ==
    \A j \in 1..Len(result_groups) :
        /\ OnlyOwnKeys(j)
        /\ \A k \in 1..Len(chunks[j]), c \in 1..Len(columns) :
              /\ KeyIsOwn(j, c, k) => HoldsPair(j, c, k)
              /\ Len(chunks[j]) <= 99 => KeyIsOwn(j, c, k)

(***************************************************************************)
(* C5 (replace_text_placeholders, tests/main.py).  After the visit of a    *)
(* paragraph of a first-table cell whose text contains the placeholder,    *)
(* with a value of lines L1..Lk:                                           *)
(*  - the placeholder gave way to L1: in the first run holding it, the     *)
(*    other runs kept, or, when no single run holds it, in the paragraph's *)
(*    text, which is then one run;                                         *)
(*  - the other paragraphs the cell had are as they were;                  *)
(*  - the paragraphs appended to the cell are `added`, in order.           *)
(***************************************************************************)
SplitOutcome(added) ==
    LET old == split_visit.cell
        new == split_doc.tables[1][split_visit.row][split_visit.col]
        j   == split_visit.para
        k   == split_visit.placeholder
        L1  == SplitLines(split_visit.value)[1]
        i   == FirstRunWith(old[j], k)
    IN  /\ Len(new) = Len(old) + Len(added)
        /\ \A q \in 1..Len(old) : q # j => new[q] = old[q]
        /\ IF i # 0
           THEN /\ Len(new[j].runs) = Len(old[j].runs)
                /\ \A r \in 1..Len(old[j].runs) :
                      r # i => new[j].runs[r] = old[j].runs[r]
                /\ new[j].runs[i].text =
                      StoredText(StrReplace(old[j].runs[i].text, k, L1))
           ELSE /\ Len(new[j].runs) = 1
                /\ ParagraphText(new[j]) =
                      StoredText(StrReplace(ParagraphText(old[j]), k, L1))
        /\ \A q \in 1..Len(added) :
              ParagraphText(new[Len(old) + q]) = StoredText(added[q])

\* C5 as claimed: each of the lines L2..Lk becomes one new paragraph of the
\* cell, so the cell gains exactly k-1 paragraphs with the texts L2..Lk
C5_AsClaimed ==
    split_visit.matched => SplitOutcome(Tail(SplitLines(split_visit.value)))

\* C5 amended: each line among L2..Lk that holds a character other than
\* white space becomes one new paragraph appended to the cell, in line
\* order; the blank lines give no paragraph
C5_NonBlankLinesBecomeParagraphs ==
    split_visit.matched =>
        SplitOutcome(SelectSeq(Tail(SplitLines(split_visit.value)), LineIsKept))

\* a value of three lines whose second is blank was applied to a paragraph
\* holding the placeholder, and the cell gained one paragraph
C5_Witness ==
    /\ split_visit.matched
    /\ split_visit.value = <<"A", "LF", "SP", "LF", "C">>
    /\ Len(split_doc.tables[1][split_visit.row][split_visit.col])
          = Len(split_visit.cell) + 1

(***************************************************************************)
(* C6 (replace_all_images_with_dummies).  With n runs bearing an image in  *)
(* the document opened, none of its cells merged (SpecDummies), and m      *)
(* files in the sorted pool, m > 0, when the                               *)
(* routine has returned: the counter is min(n, m); in every paragraph the  *)
(* runs without an image are as they were; the images numbered 1 to        *)
(* min(n, m) in the order of the traversal (top-level paragraphs, then the *)
(* cells) are gone, the k-th of them for a picture of the k-th file of the *)
(* pool; the images numbered above min(n, m) are untouched; the value      *)
(* returned is `result`.                                                   *)
(***************************************************************************)
ImageRunsOf(p) == SelectSeq(p.runs, HasImage)

PlainRunsOf(p) == SelectSeq(p.runs, LAMBDA run : ~HasImage(run))

ImagesBefore(ps, q) == SumSeq([i \in 1..(q - 1) |-> Len(ImageRunsOf(ps[i]))])

DummiesOutcome(result) ==
    LET ps0 == AllParagraphs(dummy_doc0)
        ps  == AllParagraphs(dummy_doc)
        n   == ImagesBefore(ps0, Len(ps0) + 1)
        m   == Len(dummy_files)
        r   == Min(n, m)
    IN  /\ image_count = r
        /\ dummy_ret = result
        /\ Len(ps) = Len(ps0)
        /\ \A q \in 1..Len(ps0) :
              LET a     == ImagesBefore(ps0, q)
                  old   == ImageRunsOf(ps0[q])
                  new   == ImageRunsOf(ps[q])
                  gone  == IF r - a < 0 THEN 0 ELSE Min(r - a, Len(old))
              IN  /\ PlainRunsOf(ps[q]) = PlainRunsOf(ps0[q])
                  /\ Len(new) = Len(old)
                  /\ \A i \in 1..(Len(old) - gone) : new[i] = old[gone + i]
                  /\ \A i \in 1..gone :
                        new[Len(old) - gone + i].image[1].file = dummy_files[a + i]

HasEvent(g, event) == \E n \in 1..Len(log) : log[n] = <<g, event>>

GroupBegun(g) == HasEvent(g, "copied") \/ HasEvent(g, "error")

GroupDocument(g) ==
    replace_images_in_document(
        replace_text_in_document(template[1], groups[g + 1].text_dict),
        FixedImageDict(groups[g + 1].image_dict),
        image_files, profile.image_width_inches)

C10_ConversionFailureCaught ==
    /\ mpc = "convert" =>
          /\ HasEvent(group_i, "saved")
          /\ output[group_i + 1] = main_doc
          /\ main_doc # None
    /\ \A g \in 0..(Len(groups) - 1) :
          <<g, "convert">> \in raised =>
              /\ HasEvent(g, "pdf_failed")
              /\ HasEvent(g, "saved")
              /\ output[g + 1] = Some(GroupDocument(g))
              /\ g \notin pdfs
              /\ mpc # "crashed"
              /\ group_i > g
              /\ mpc = "done" => \A h \in (g + 1)..(Len(groups) - 1) : GroupBegun(h)

\* the conversion of the first group failed, and the second group was
\* saved and converted after it
C10_Witness ==
    /\ mpc = "done"
    /\ <<0, "convert">> \in raised
    /\ HasEvent(1, "saved")
    /\ HasEvent(1, "pdf")
    /\ output[1] # None

(***************************************************************************)
(* C11 (main, main2.py:255-268).  When the CSV file cannot be read or the  *)
(* template file does not exist, main is over before any group is          *)
(* processed: table_to_dicts is not called, no template copy is made, no   *)
(* document is written, no conversion is attempted, and no exception       *)
(* leaves main.                                                            *)
(***************************************************************************)
C11_RunAbandoned ==
    (df = None \/ template = None) =>
        /\ mpc \in {"load", "template", "done"}
        /\ groups = <<>>
        /\ output = <<>>
        /\ pdfs = {}
        /\ main_doc = None
        /\ \A n \in 1..Len(log) :
              log[n][2] \in {"loaded", "csv_error", "template_missing"}
        /\ raised \subseteq {<<0, "load">>}

\* the CSV file was read and has rows, the template is missing, and main
\* is over
C11_Witness ==
    /\ mpc = "done"
    /\ df # None
    /\ df[1].rows # <<>>
    /\ template = None
    /\ log = << <<0, "loaded">>, <<0, "template_missing">> >>

(***************************************************************************)
(* C12 (main, main2.py:290-298).  After the image step of a group, the     *)
(* pictures of the document are those of the files named by the group's    *)
(* image values with their leading '/' characters removed, for the values  *)
(* whose stripped path exists and whose key stands in the document: the    *)
(* stripped path is the one looked up and the one embedded.                *)
(***************************************************************************)
PicturesOf(d) ==
    UNION {{p.runs[r].image[1].file :
               r \in {r \in 1..Len(p.runs) : HasImage(p.runs[r])}} :
           p \in {AllParagraphs(d)[q] : q \in 1..Len(AllParagraphs(d))}}

\* the pictures to expect when Strip is what is done to an image value
PicturesExpected(Strip(_)) ==
    LET grp      == groups[group_i + 1]
        text_doc == replace_text_in_document(template[1], grp.text_dict)
    IN  {Strip(grp.image_dict[n][2]) : n \in
            {n \in 1..Len(grp.image_dict) :
                /\ Strip(grp.image_dict[n][2]) \in image_files
                /\ \E q \in 1..Len(AllParagraphs(text_doc)) :
                      StrIn(grp.image_dict[n][1],
                            ParagraphText(AllParagraphs(text_doc)[q]))}}

\* the value without its first character when that is '/'
WithoutLeadingSeparator(path) ==
    IF path # <<>> /\ path[1] = "/" THEN SubSeq(path, 2, Len(path)) ELSE path

\* the value from its first character other than '/' on
WithoutLeadingSeparators(path) ==
    LET lead == CHOOSE k \in 0..Len(path) :
                    /\ \A n \in 1..k : path[n] = "/"
                    /\ k < Len(path) => path[k + 1] # "/"
    IN  SubSeq(path, lead + 1, Len(path))

C13_NoTablesReturnsFalse ==
    /\ (split_ret \notin {"idle", "running"} /\ split_doc0.tables = <<>>) =>
          /\ split_ret = "False"
          /\ split_doc = split_doc0
          /\ split_visit = NoVisit
          /\ split_out = Some(split_doc0)
    /\ split_raised => split_ret = "False"

\* a document with a top-level paragraph holding the placeholder and no
\* table: False was returned without an exception
C13_Witness ==
    /\ split_ret = "False"
    /\ ~split_raised
    /\ split_doc0.tables = <<>>
    /\ split_doc0.paragraphs # <<>>
    /\ text_replacements # <<>>
    /\ StrIn(text_replacements[1][1], ParagraphText(split_doc0.paragraphs[1]))

(***************************************************************************)
(* C14 (replace_text_in_document, main2.py:18-42).  An item whose key      *)
(* stands in no paragraph when it is processed is reported as not found    *)
(* and leaves the document, with the replacements made for earlier keys,   *)
(* as it was; an item whose key stands in a paragraph when it is processed *)
(* is replaced there and reported as replaced, also when items before it   *)
(* were not found; and when the pass is over every item has been           *)
(* processed and reported.                                                 *)
(***************************************************************************)
C14_AbsentKeyIsOnlyWarned ==
    /\ phase = "done" => (n_done = Len(replacements) /\ Len(printed) = Len(replacements))
    /\ (phase \in {"text", "done"} /\ n_done >= 1) =>
          LET k  == replacements[n_done][1]
              v  == LineBreaks(replacements[n_done][2])
              ps == AllParagraphs(prev_doc)
              Present(i) == StrIn(k, ParagraphText(ps[i]))
          IN  /\ Len(printed) = n_done
              /\ \A j \in 1..n_done : printed[j].key = replacements[j][1]
              /\ IF \E i \in 1..Len(ps) : Present(i)
                 THEN /\ printed[n_done].kind = "replaced"
                      /\ \A i \in 1..Len(ps) : Present(i) =>
                            /\ AllParagraphs(doc)[i] =
                                  replace_in_paragraph(ps[i], k, v).paragraph
                            /\ ParagraphText(AllParagraphs(doc)[i]) # ParagraphText(ps[i])
                 ELSE /\ printed[n_done].kind = "not_found"
                      /\ doc = prev_doc

\* the first key of the mapping was not found, the second was found and
\* replaced after it, in a document that the pass changed
C14_Witness ==
    /\ phase = "done"
    /\ n_done = 2
    /\ printed[1].kind = "not_found"
    /\ printed[2].kind = "replaced"
    /\ prev_doc = doc0
    /\ doc # doc0

(***************************************************************************)
(* C15 (replace_in_paragraph, main2.py:66-109).  When the key stands in    *)
(* the paragraph's text but in the text of no single run, the routine      *)
(* returns 1 and the paragraph ends with exactly one run: its text is the  *)
(* paragraph's old text with every occurrence of the key replaced by the   *)
(* value; each of bold, italic, underline, font name, font size and color  *)
(* is that of the old first run where that run had it set, and is not set  *)
(* otherwise.  A paragraph that had no run gets one unformatted run with   *)
(* the replaced text.                                                      *)
(***************************************************************************)
FormatAttributes == {"bold", "italic", "underline", "font_name", "font_size", "color"}

C15_StraddlingKeyRebuilds ==
    (/\ ret # -1
     /\ StrIn(find_text, ParagraphText(before))
     /\ FirstRunWith(before, find_text) = 0) =>
        /\ ret = 1
        /\ paragraph.style = before.style
        /\ Len(paragraph.runs) = 1
        /\ paragraph.runs[1].image = None
        /\ paragraph.runs[1].text =
              StoredText(StrReplace(ParagraphText(before), find_text, replace_text))
        /\ \A a \in FormatAttributes :
              paragraph.runs[1].fmt[a] =
                  IF before.runs # <<>> THEN before.runs[1].fmt[a] ELSE None

\* the key "ab" straddles two runs of different formatting and the value
\* holds a line break; the one run left has the first run's formatting
C15_Witness ==
    /\ ret = 1
    /\ find_text = <<"a", "b">>
    /\ replace_text = <<"x", "LF", "a", "b">>
    /\ Len(before.runs) = 2
    /\ before.runs[1].text = <<"a">>
    /\ before.runs[2].text = <<"b">>
    /\ before.runs[1].fmt = FormatA
    /\ before.runs[2].fmt = FormatB
    /\ paragraph.runs = <<[text |-> <<"x", "LF", "a", "b">>, fmt |-> FormatA,
                           image |-> None]>>

\* a paragraph without runs and the empty key: one unformatted run
C15_WitnessNoRuns ==
    /\ ret = 1
    /\ before.runs = <<>>
    /\ paragraph.runs = <<NewRun(replace_text)>>

(***************************************************************************)
(* C16 (main, main2.py:276-316).  The steps of a group are reported in the *)
(* order copy, (open,) text, images, save, conversion, each one only after *)
(* the one before it; groups go in the order of table_to_dicts and no step *)
(* of a group is reported before the group before it has ended (converted, *)
(* conversion failed, or error); the document saved for group i is the     *)
(* template with the replacements of the i-th group, text before images;   *)
(* and the files written are <prefix>_<i on two digits>.docx for the       *)
(* groups copied and <prefix>_<i on two digits>.pdf for those converted.   *)
(***************************************************************************)
StepEvents == <<"copied", "opened", "text", "images", "saved">>

LastEvents == {"pdf", "pdf_failed", "error"}

StepRank(event) ==
    IF event \in LastEvents THEN Len(StepEvents) + 1
    ELSE CHOOSE r \in 1..Len(StepEvents) : StepEvents[r] = event

IsStep(n) == log[n][2] \in LastEvents \/ \E r \in 1..Len(StepEvents) : StepEvents[r] = log[n][2]

TwoDigits(g) == IF g < 10 THEN <<"0", Digit(g)>> ELSE Decimal(g)

C16_StepsInOrder ==
    /\ \A m, n \in 1..Len(log) :
          (m < n /\ IsStep(m) /\ IsStep(n)) =>
              /\ log[m][1] <= log[n][1]
              /\ log[m][1] = log[n][1] => StepRank(log[m][2]) < StepRank(log[n][2])
    /\ \A n \in 1..Len(log) :
          IsStep(n) =>
              /\ log[n][1] > 0 =>
                    \E m \in 1..(n - 1) :
                        log[m][1] = log[n][1] - 1 /\ log[m][2] \in LastEvents
              /\ (log[n][2] \notin LastEvents /\ StepRank(log[n][2]) > 1) =>
                    \E m \in 1..(n - 1) :
                        log[m] = <<log[n][1], StepEvents[StepRank(log[n][2]) - 1]>>
              /\ log[n][2] \in {"pdf", "pdf_failed"} =>
                    \E m \in 1..(n - 1) : log[m] = <<log[n][1], "saved">>
    /\ \A g \in 0..(Len(groups) - 1) :
          /\ HasEvent(g, "saved") => output[g + 1] = Some(GroupDocument(g))
          /\ (HasEvent(g, "images") /\ group_i = g) => main_doc = Some(GroupDocument(g))
          /\ (HasEvent(g, "text") /\ ~HasEvent(g, "images") /\ group_i = g) =>
                main_doc = Some(replace_text_in_document(template[1], groups[g + 1].text_dict))
    /\ written =
          {OutputPrefix \o <<"_">> \o TwoDigits(g) \o <<".docx">> :
              g \in {h \in 0..(Len(groups) - 1) : HasEvent(h, "copied")}}
          \union {OutputPrefix \o <<"_">> \o TwoDigits(g) \o <<".pdf">> : g \in pdfs}

\* two groups went through all their steps, the first one's conversion
\* failed, and each wrote its own files
C16_Witness ==
    /\ mpc = "done"
    /\ Len(groups) = 2
    /\ HasEvent(0, "pdf_failed")
    /\ HasEvent(1, "pdf")
    /\ Cardinality(written) = 3
    /\ groups[1] # groups[2]

(***************************************************************************)
(* C17 (main, main2.py:276-318).  An exception raised by a step of group i *)
(* (copy, open, text, images, save) is caught and reported as that group's *)
(* error; the group is left as it is (no later step of it runs, nothing is *)
(* converted, no step runs twice), main is not left, the loop moves on,    *)
(* every later group gets its own iteration, and once the dataset and the  *)
(* template have been found main reaches its end (the completion message). *)
(***************************************************************************)
GroupSteps == <<"copy", "open", "text", "images", "save">>

EventsOf(g) == {n \in 1..Len(log) : log[n][1] = g /\ IsStep(n)}

C17_GroupFailureSkipsGroup ==
    /\ mpc # "crashed"
    /\ \A g \in 0..(Len(groups) - 1) : \A s \in 1..Len(GroupSteps) :
          <<g, GroupSteps[s]>> \in raised =>
              /\ HasEvent(g, "error")
              /\ group_i > g
              /\ g \notin pdfs
              /\ Cardinality(EventsOf(g)) = s
              /\ \A r \in 1..(s - 1) : HasEvent(g, StepEvents[r])
              /\ Cardinality({e \in raised : e[1] = g}) = 1
              /\ (GroupSteps[s] # "save" /\ output[g + 1] # None) =>
                    output[g + 1] = template
              /\ mpc = "done" => \A h \in (g + 1)..(Len(groups) - 1) : GroupBegun(h)

C17_FailedGroupIsSkipped ==
    /\ []C17_GroupFailureSkipsGroup
    /\ (mpc = "split") ~> (mpc = "done" /\ group_i = Len(groups))

\* the first group failed while its text was replaced, and the second group
\* was saved after it
C17_Witness ==
    /\ mpc = "done"
    /\ <<0, "text">> \in raised
    /\ HasEvent(1, "saved")

(***************************************************************************)
(* C18 (replace_text_in_document, main2.py:18-37).  The pass never changes *)
(* the number of paragraphs: the body, every table, row and cell keep the  *)
(* number of paragraphs (rows, cells) they had; and after an item, every   *)
(* paragraph that held the key has no more runs than before (at least      *)
(* one), one of which holds the whole value, a line break of the value     *)
(* being a line break inside that run's text.                              *)
(***************************************************************************)
Shape(d) ==
    [paragraphs |-> Len(d.paragraphs),
     tables |-> [t \in 1..Len(d.tables) |->
                   [r \in 1..Len(d.tables[t]) |->
                      [c \in 1..Len(d.tables[t][r]) |-> Len(d.tables[t][r][c])]]]]

HasLineBreak(v) == StrIn(<<"LF">>, v) \/ StrIn(<<"CR">>, v)

C18_ParagraphCountKept ==
    phase \in {"text", "done"} =>
        /\ Shape(doc) = Shape(doc0)
        /\ Len(AllParagraphs(doc)) = Len(AllParagraphs(doc0))
        /\ n_done >= 1 =>
              LET k  == replacements[n_done][1]
                  v  == replacements[n_done][2]
                  ps == AllParagraphs(prev_doc)
                  qs == AllParagraphs(doc)
              IN  \A i \in 1..Len(ps) :
                     StrIn(k, ParagraphText(ps[i])) =>
                         /\ Len(qs[i].runs) >= 1
                         /\ Len(qs[i].runs) <= IF ps[i].runs = <<>> THEN 1 ELSE Len(ps[i].runs)
                         /\ \E r \in 1..Len(qs[i].runs) :
                               /\ StrIn(StoredText(v), qs[i].runs[r].text)
                               /\ qs[i].runs[r].image = None

\* a value with a line break has replaced the key in a top-level paragraph
\* and in a paragraph of a table cell, the first in one run of two, the
\* second rebuilt to one run
C18_Witness ==
    /\ phase \in {"text", "done"}
    /\ n_done >= 1
    /\ HasLineBreak(replacements[n_done][2])
    /\ prev_doc.paragraphs # <<>>
    /\ prev_doc.tables # <<>>
    /\ \A i \in 1..Len(AllParagraphs(prev_doc)) :
          StrIn(replacements[n_done][1], ParagraphText(AllParagraphs(prev_doc)[i]))
    /\ \E i \in 1..Len(AllParagraphs(doc)) :
          /\ Len(AllParagraphs(doc)[i].runs) = 2
          /\ Len(AllParagraphs(prev_doc)[i].runs) = 2
    /\ \E i \in 1..Len(AllParagraphs(doc)) :
          /\ Len(AllParagraphs(doc)[i].runs) = 1
          /\ Len(AllParagraphs(prev_doc)[i].runs) = 2
    /\ \E i \in 1..Len(AllParagraphs(doc)) : \E r \in 1..Len(AllParagraphs(doc)[i].runs) :
          StrIn(<<"LF">>, AllParagraphs(doc)[i].runs[r].text)

(***************************************************************************)
(* C19 (replace_all_images_with_dummies, tests/main.py:130-149 and         *)
(* tests/test.py:182-201).  The pool is used in the numeric order of the   *)
(* file numbers: when the routine has returned, the picture put in for the *)
(* k-th image met in the traversal is the file of the pool with the k-th   *)
(* smallest number, whatever the numbers of digits of the file numbers.    *)
(***************************************************************************)
\* the number a file name starts with
RECURSIVE FileNumberFrom(_, _)
FileNumberFrom(f, n) ==
    IF f = <<>> \/ Head(f) \notin {Digit(d) : d \in 0..9} THEN n
    ELSE FileNumberFrom(Tail(f), 10 * n + (CHOOSE d \in 0..9 : Digit(d) = Head(f)))

FileNumber(f) == FileNumberFrom(f, 0)

\* the file of the pool with the k-th smallest number
KthByNumber(pool, k) ==
    CHOOSE f \in {pool[j] : j \in 1..Len(pool)} :
        Cardinality({j \in 1..Len(pool) : FileNumber(pool[j]) < FileNumber(f)}) = k - 1

C19_AsClaimed ==
    (dummy_ret \in {"True", "False"} /\ dummy_files # <<>>) =>
        LET ps0 == AllParagraphs(dummy_doc0)
            ps  == AllParagraphs(dummy_doc)
        IN  \A q \in 1..Len(ps0) :
               LET a    == ImagesBefore(ps0, q)
                   old  == ImageRunsOf(ps0[q])
                   new  == ImageRunsOf(ps[q])
                   gone == IF image_count - a < 0 THEN 0
                           ELSE Min(image_count - a, Len(old))
               IN  \A i \in 1..gone :
                      new[Len(old) - gone + i].image[1].file =
                          KthByNumber(dummy_files, a + i)

\* what holds instead: the k-th image met gets the k-th file in the order
\* of python's string comparison, in which 10.jpg stands before 2.jpg
PoolInStringOrder ==
    /\ \A j \in 1..(Len(dummy_files) - 1) : StrLess(dummy_files[j], dummy_files[j + 1])
    /\ (dummy_ret \in {"True", "False"} /\ dummy_files # <<>>) =>
          DummiesOutcome(dummy_ret)

(***************************************************************************)
(* C20 (replace_existing_image, tests/test.py:91-165).  When the routine   *)
(* has replaced an image, it is the first run with an image of the first   *)
(* top-level paragraph that has one; the run with the new picture stands   *)
(* at the index the removed run had, the paragraph has as many runs as     *)
(* before, and every other run, every other paragraph and every table is   *)
(* as it was.                                                              *)
(***************************************************************************)
C20_AsClaimed ==
    existing_ret = "True" =>
        LET q   == FirstImageParagraph(existing_doc0)
            old == existing_doc0.paragraphs[q]
            new == existing_doc.paragraphs[q]
            r   == FirstImageRun(old)
        IN  /\ q # 0
            /\ existing_doc.tables = existing_doc0.tables
            /\ Len(existing_doc.paragraphs) = Len(existing_doc0.paragraphs)
            /\ \A s \in 1..Len(existing_doc0.paragraphs) :
                  s # q => existing_doc.paragraphs[s] = existing_doc0.paragraphs[s]
            /\ Len(new.runs) = Len(old.runs)
            /\ new.runs[r].image # None
            /\ new.runs[r].image[1].file = new_image_path
            /\ \A s \in 1..Len(old.runs) : s # r => new.runs[s] = old.runs[s]

\* what holds instead: the run with the new picture is the paragraph's last
\* run, and the runs that followed the removed one have moved up by one
ImageMovedToEnd ==
    existing_ret = "True" =>
        LET q   == FirstImageParagraph(existing_doc0)
            old == existing_doc0.paragraphs[q]
            new == existing_doc.paragraphs[q]
            r   == FirstImageRun(old)
        IN  /\ q # 0
            /\ existing_doc.tables = existing_doc0.tables
            /\ Len(existing_doc.paragraphs) = Len(existing_doc0.paragraphs)
            /\ \A s \in 1..Len(existing_doc0.paragraphs) :
                  s # q => existing_doc.paragraphs[s] = existing_doc0.paragraphs[s]
            /\ Len(new.runs) = Len(old.runs)
            /\ new.runs[Len(new.runs)].image =
                  Some([file |-> new_image_path, width |-> ExistingWidth(old.runs[r])])
            /\ \A s \in 1..(r - 1) : new.runs[s] = old.runs[s]
            /\ \A s \in r..(Len(old.runs) - 1) : new.runs[s] = old.runs[s + 1]

(***************************************************************************)
(* C21 (replace_text_in_document, main2.py:26-37, and replace_in_paragraph *)
(* 60-64).  After an item whose value does not hold its key, no paragraph  *)
(* of the document, top-level or in a table cell, holds the key in its     *)
(* text, however the key's occurrences lie in the paragraph's runs.        *)
(***************************************************************************)
C21_AsClaimed ==
    (/\ phase \in {"text", "done"}
     /\ n_done >= 1
     /\ ~StrIn(replacements[n_done][1], replacements[n_done][2])) =>
        \A i \in 1..Len(AllParagraphs(doc)) :
            ~StrIn(replacements[n_done][1], ParagraphText(AllParagraphs(doc)[i]))

\* what holds instead: in a paragraph where some run held the key, the first
\* such run no longer holds it and the other runs are as they were, the key
\* with them (for values that do not form the key anew with the text around
\* them, as the values of TextValues)
KeyLeftInLaterRuns ==
    (/\ phase \in {"text", "done"}
     /\ n_done >= 1
     /\ ~StrIn(replacements[n_done][1], replacements[n_done][2])) =>
        LET k  == replacements[n_done][1]
            ps == AllParagraphs(prev_doc)
            qs == AllParagraphs(doc)
        IN  \A i \in 1..Len(ps) :
               IF FirstRunWith(ps[i], k) # 0
               THEN /\ ~StrIn(k, qs[i].runs[FirstRunWith(ps[i], k)].text)
                    /\ \A r \in 1..Len(ps[i].runs) :
                          r # FirstRunWith(ps[i], k) => qs[i].runs[r] = ps[i].runs[r]
               ELSE ~StrIn(k, ParagraphText(qs[i]))

(***************************************************************************)
(* C22 (main, main2.py:286-298, with replace_text_in_document 18-37 and    *)
(* replace_images_in_document 121-140).  In one generation pass an item    *)
(* changes the paragraphs whose text holds its key when the item is        *)
(* processed, and no other: a value put in by an earlier item stays as it  *)
(* is as long as no later key stands in its paragraph.  A later text key   *)
(* that stands in the paragraph, be it inside an inserted value, is        *)
(* replaced there, and an image key whose file exists leaves the paragraph *)
(* as the picture alone.  The document at the end is the template with the *)
(* items of the text map and then those of the image map applied one after *)
(* another in the order of the maps.                                       *)
(***************************************************************************)
\* the orders in which the items of a map can stand
Orders(items) ==
    {[j \in 1..Len(items) |-> items[f[j]]] :
        f \in {g \in [1..Len(items) -> 1..Len(items)] :
                  \A a, b \in 1..Len(items) : a # b => g[a] # g[b]}}

PassResult(d, text_items, image_items) ==
    replace_images_in_document(replace_text_in_document(d, text_items),
                               image_items, files, width_inches)

\* the key of the item processed last
LastKey ==
    IF phase = "text" THEN replacements[n_done][1] ELSE image_replacements[n_done][1]

C22_OnlyKeyedParagraphsChange ==
    /\ (phase \in {"text", "image"} /\ n_done >= 1) =>
          /\ Len(AllParagraphs(doc)) = Len(AllParagraphs(prev_doc))
          /\ \A i \in 1..Len(AllParagraphs(prev_doc)) :
                ~StrIn(LastKey, ParagraphText(AllParagraphs(prev_doc)[i])) =>
                    AllParagraphs(doc)[i] = AllParagraphs(prev_doc)[i]
    /\ phase = "done" => doc = PassResult(doc0, replacements, image_replacements)

\* C22 as claimed: at the end every paragraph that held a text key holds
\* that key's value, and the document is the same for every order of the
\* items of the two maps
C22_AsClaimed ==
    phase = "done" =>
        /\ \A j \in 1..Len(replacements) : \A i \in 1..Len(AllParagraphs(doc0)) :
              StrIn(replacements[j][1], ParagraphText(AllParagraphs(doc0)[i])) =>
                  StrIn(StoredText(replacements[j][2]),
                        ParagraphText(AllParagraphs(doc)[i]))
        /\ \A t \in Orders(replacements) : \A m \in Orders(image_replacements) :
              doc = PassResult(doc0, t, m)

\* the value of the first text item was put into two paragraphs; the second
\* text item left both alone, and the image item then cleared one of them
\* and left the other with the value
C22_Witness ==
    /\ phase = "image"
    /\ n_done >= 1
    /\ Len(replacements) = 2
    /\ LastKey \in {image_replacements[j][1] : j \in 1..Len(image_replacements)}
    /\ \E i, h \in 1..Len(AllParagraphs(doc0)) :
          /\ StrIn(replacements[1][1], ParagraphText(AllParagraphs(doc0)[i]))
          /\ StrIn(replacements[1][1], ParagraphText(AllParagraphs(doc0)[h]))
          /\ StrIn(StoredText(replacements[1][2]), ParagraphText(AllParagraphs(doc)[i]))
          /\ StrIn(StoredText(replacements[1][2]), ParagraphText(AllParagraphs(prev_doc)[h]))
          /\ AllParagraphs(doc)[h].runs[1].image # None
          /\ AllParagraphs(doc)[i] = AllParagraphs(prev_doc)[i]

(***************************************************************************)
(* C23 (replace_all_images_with_dummies, tests/main.py:141-219 and         *)
(* tests/test.py:231-271).  When the routine has returned, every file of   *)
(* the pool it consumed is the picture of a run of the document (no run it *)
(* put in was replaced again), and the number of files consumed is the     *)
(* number of the original images that are gone; also for paragraphs with   *)
(* several images and for cells the traversal meets more than once.        *)
(***************************************************************************)
\* the pictures of the document that are files of the pool (at = TRUE) or
\* that are not (at = FALSE), as <<paragraph, run>>
PicturesAt(d, pool, at) ==
    {pr \in UNION {{<<i, r>> : r \in 1..Len(AllParagraphs(d)[i].runs)} :
                       i \in 1..Len(AllParagraphs(d))} :
        /\ HasImage(AllParagraphs(d)[pr[1]].runs[pr[2]])
        /\ (AllParagraphs(d)[pr[1]].runs[pr[2]].image[1].file
               \in {pool[j] : j \in 1..Len(pool)}) = at}

C23_AsClaimed ==
    (dummy_ret \in {"True", "False"} /\ dummy_files # <<>>) =>
        /\ Cardinality(PicturesAt(dummy_doc, dummy_files, TRUE)) = image_count
        /\ image_count = Cardinality(PicturesAt(dummy_doc0, dummy_files, FALSE))
                            - Cardinality(PicturesAt(dummy_doc, dummy_files, FALSE))
        /\ \A k \in 1..image_count :
              \E pr \in PicturesAt(dummy_doc, dummy_files, TRUE) :
                  AllParagraphs(dummy_doc)[pr[1]].runs[pr[2]].image[1].file = dummy_files[k]

====
